---- MODULE Spec2Model ----
(***************************************************************************)
(* Verification model of the security-auditor scan pipeline.               *)
(*                                                                         *)
(*   SpecClone   utils/repo_handler.py   clone_repo, _kill_process_tree    *)
(*   SpecScan    utils/file_scanner.py   scan_files                        *)
(*   SpecAgents  main.py                 _run_agents_parallel              *)
(*   Spec        main.py                 analyze_repo, _blocking_scan      *)
(*   SpecSecrets agents/secrets_agent.py detect_secrets                    *)
(*   SpecAuth    agents/auth_agent.py    detect_missing_auth               *)
(*   SpecRerun   main.py                 _run_agents_parallel, twice       *)
(*   SpecSql     agents/sql_agent.py     detect_sql_injection              *)
(*   SpecGraph   graph_workflow.py       run_security_graph, next to the   *)
(*                                       orchestrator on the same files    *)
(*   SpecFix     main.py                 generate_fix, fix_all             *)
(*                                                                         *)
(* Each specification drives one group of variables; the variables of the  *)
(* other groups stay at their initial values.                              *)
(***************************************************************************)
EXTENDS Integers, Sequences, FiniteSets, TLC

VARIABLES
    \* ---- clone_repo (utils/repo_handler.py) ----
    platform,       \* sys.platform: "win32" or "posix"
    c_pc,           \* position inside clone_repo
    temp_dir,       \* "none" | "exists" | "removed": the mkdtemp directory
    alive,          \* set of live processes
    pgid,           \* process -> process group (of every process ever started)
    parent,         \* process -> parent process
    returncode,     \* proc.returncode: "none" | "zero" | "nonzero"
    reaped,         \* TRUE once the clone process has been waited for
    c_timed_out,    \* TRUE once communicate() raised TimeoutExpired
    c_result,       \* "none" | "path" | "RuntimeError" | "OSError"
    \* ---- scan_files (utils/file_scanner.py) ----
    s_pc,               \* "walk" | "files" | "load" | "done"
    walk_stack,         \* directories os.walk has still to yield, in order
    cur_root,           \* `root` of the current os.walk iteration
    files_in_dir,       \* filenames of cur_root already iterated
    code_paths,         \* the discovery list
    tree_entries_seen,
    hit_tree_cap,
    dirs_walked,        \* directories os.walk has yielded so far
    pruned_names,       \* directory names lines 59-62 have removed so far
    s_disk,             \* what phase 2 found on disk for files_to_scan
    s_result,           \* the returned dict, or NoResult
    \* ---- _run_agents_parallel (main.py) ----
    a_pc,           \* "idle" | "submit" | "collect" | "returned"
    a_files,        \* the `files` argument
    a_returns,      \* category -> what its detector returns for a_files
    a_faulty,       \* the categories whose detector raises on a_files
    a_future,       \* category -> "unsubmitted" | "running" | "finished"
    a_findings,     \* the `findings` dict: category -> list (keys assigned)
    a_key_order,    \* insertion order of the keys of `findings`
    a_writes,       \* category -> number of assignments to findings[category]
    a_log,          \* categories logged as failed
    \* ---- analyze_repo and _blocking_scan (main.py) ----
    r_url,          \* request.repo_url.strip(): "" or a locator
    h_pc,           \* handler: "start" | "awaiting" | "responded"
    h_response,     \* what the handler returned, or NoResponse
    w_pc,           \* worker thread inside _blocking_scan
    w_repo_path,    \* local `repo_path`: "none" or "dir"
    dir_exists,     \* the directory clone_repo created is on disk
    cleanup_calls,  \* number of cleanup_repo calls on the fetched directory
    w_scan,         \* local `scan_result`
    w_hit_cap,      \* whether the walk of this scan hit a cap
    w_findings,     \* local `findings`
    w_result,       \* the dict _blocking_scan returned, or NoResult
    w_exc,          \* the exception _blocking_scan raised, or "none"
    w_log,          \* what _blocking_scan logged as failed
    \* ---- detect_secrets (agents/secrets_agent.py) ----
    sec_pc,         \* "idle" | "call" | "returned"
    sec_files,      \* the `files` argument
    sec_findings,   \* the returned findings
    sec_matched,    \* match.group(0) of each finding, in the same order
    \* ---- detect_missing_auth (agents/auth_agent.py) ----
    auth_pc,        \* "idle" | "call" | "returned"
    auth_case,      \* how auth_files was built
    auth_files,     \* the `files` argument
    auth_findings,  \* the returned findings
    \* ---- two runs of _run_agents_parallel on the same files ----
    a_run,          \* 0: not counted; 1: first run; 2: second run
    a_prev,         \* `findings` as the first run returned it
    a_prev_order,   \* the order in which the first run stored its keys
    \* ---- detect_sql_injection (agents/sql_agent.py) ----
    sql_pc,         \* "idle" | "call" | "returned"
    sql_case,       \* how sql_files was built
    sql_files,      \* the `files` argument
    sql_findings,   \* the returned findings
    \* ---- graph_workflow.py: run_security_graph ----
    g_pc,           \* the node of the graph about to run, or how the run ended
    g_state,        \* the SecurityState dict handed from node to node
    g_result,       \* what run_security_graph returned, or NoResult
    \* ---- main.py: generate_fix, fix_all ----
    groq_client,    \* whether _groq_client is configured (main.py line 29)
    fix_cache,      \* the dict _fix_cache, each entry with the operation that stored it
    fix_response,   \* the body of the last response of generate_fix or fix_all
    fix_requests    \* how many fix requests were answered

cloneVars == <<platform, c_pc, temp_dir, alive, pgid, parent, returncode,
               reaped, c_timed_out, c_result>>

scanVars == <<s_pc, walk_stack, cur_root, files_in_dir, code_paths,
              tree_entries_seen, hit_tree_cap, dirs_walked, pruned_names,
              s_disk, s_result>>

agentVars == <<a_pc, a_files, a_returns, a_faulty, a_future, a_findings,
               a_key_order, a_writes, a_log>>

reqVars == <<r_url, h_pc, h_response, w_pc, w_repo_path, dir_exists,
             cleanup_calls, w_scan, w_hit_cap, w_findings, w_result, w_exc,
             w_log>>

secretVars == <<sec_pc, sec_files, sec_findings, sec_matched>>

authVars == <<auth_pc, auth_case, auth_files, auth_findings>>

rerunVars == <<a_run, a_prev, a_prev_order>>

sqlVars == <<sql_pc, sql_case, sql_files, sql_findings>>

graphVars == <<g_pc, g_state, g_result>>

fixVars == <<groq_client, fix_cache, fix_response, fix_requests>>

vars == <<cloneVars, scanVars, agentVars, reqVars, secretVars, authVars,
          rerunVars, sqlVars, graphVars, fixVars>>

notCloneVars == <<scanVars, agentVars, reqVars, secretVars, authVars,
                  rerunVars, sqlVars, graphVars, fixVars>>
notScanVars == <<cloneVars, agentVars, reqVars, secretVars, authVars,
                 rerunVars, sqlVars, graphVars, fixVars>>
notAgentVars == <<cloneVars, scanVars, reqVars, secretVars, authVars,
                  rerunVars, sqlVars, graphVars, fixVars>>
notReqVars == <<cloneVars, scanVars, agentVars, secretVars, authVars,
                rerunVars, sqlVars, graphVars, fixVars>>
notSecretVars == <<cloneVars, scanVars, agentVars, reqVars, authVars,
                   rerunVars, sqlVars, graphVars, fixVars>>
notAuthVars == <<cloneVars, scanVars, agentVars, reqVars, secretVars,
                 rerunVars, sqlVars, graphVars, fixVars>>
notSqlVars == <<cloneVars, scanVars, agentVars, reqVars, secretVars, authVars,
                rerunVars, graphVars, fixVars>>
notGraphVars == <<cloneVars, scanVars, agentVars, reqVars, secretVars,
                  authVars, rerunVars, sqlVars, fixVars>>
notFixVars == <<cloneVars, scanVars, agentVars, reqVars, secretVars, authVars,
                rerunVars, sqlVars, graphVars>>

\* ------------------------------------------------------------------------
\* Bounds
\* ------------------------------------------------------------------------
\* helper processes the clone process may start (git-remote-https, ...)
MaxHelpers == 2
\* depth of the directory tree below the repository root
MaxDepth == 2
\* filenames in one directory
MaxFilesPerDir == 4
\* how far below and above a matcher's minimum length the sample values go
SecretSlack == 1
\* how many lines beyond the context window of a route the other line of a
\* file may lie
WindowSlack == 2
\* the fix requests answered in one run
MaxFixRequests == 3
\* The limits of scan_files (MAX_FILES_INITIAL, MAX_TOTAL_FILES,
\* HARD_TREE_CAP) are bounds as well: they are defined, scaled down, with
\* the rest of utils/file_scanner.py below.

\* ========================================================================
\* utils/repo_handler.py
\* ========================================================================
Platforms == {"win32", "posix"}

Helpers == {<<"helper", i>> : i \in 1..MaxHelpers}
Scanner == <<"scanner", 0>>
Git == <<"git", 0>>
Procs == {Scanner, Git} \cup Helpers

\* the process group the server itself runs in, and the one
\* CREATE_NEW_PROCESS_GROUP gives the clone process on Windows
ScannerGroup == "scanner_group"
GitGroup == "git_group"

\* Popen(cmd, ..., creationflags=creation_flags): creation_flags is
\* CREATE_NEW_PROCESS_GROUP on win32 only; on every other platform no
\* start_new_session / process_group is passed, so the child inherits the
\* caller's process group.
PopenGroup(plat) ==
    IF plat = "win32" THEN GitGroup ELSE ScannerGroup

RECURSIVE Descendants(_, _)
\* the processes of set S that have p among their ancestors
Descendants(p, S) ==
    LET kids == {q \in S : parent[q] = p}
    IN  kids \cup UNION {Descendants(q, S \ kids) : q \in kids}

\* _kill_process_tree(pid): the set of processes that are gone afterwards.
\* win32: taskkill /F /T /PID kills pid and its descendants.
\* other: os.killpg(os.getpgid(pid), SIGKILL) kills every member of pid's
\*        process group; ProcessLookupError (no such process) is ignored.
\*        The pid is not reaped before the call, so getpgid finds it.
kill_process_tree(plat, pid) ==
    IF plat = "win32"
    THEN ({pid} \cup Descendants(pid, DOMAIN parent)) \cap alive
    ELSE IF pid \in DOMAIN pgid /\ ~reaped
         THEN {q \in alive : pgid[q] = pgid[pid]}
         ELSE {}

InitCloneVars ==
    /\ platform \in Platforms
    /\ c_pc = "mkdtemp"
    /\ temp_dir = "none"
    /\ alive = {Scanner}
    /\ pgid = (Scanner :> ScannerGroup)
    /\ parent = (Scanner :> Scanner)
    /\ returncode = "none"
    /\ reaped = FALSE
    /\ c_timed_out = FALSE
    /\ c_result = "none"

\* line 40: temp_dir = tempfile.mkdtemp(prefix="security_audit_")
Mkdtemp ==
    /\ c_pc = "mkdtemp"
    /\ Scanner \in alive
    /\ temp_dir' = "exists"
    /\ c_pc' = "popen"
    /\ UNCHANGED <<platform, alive, pgid, parent, returncode, reaped,
                   c_timed_out, c_result>>
    /\ UNCHANGED notCloneVars

\* lines 53-60: subprocess.Popen(cmd, ...) starts the clone process.
PopenOk ==
    /\ c_pc = "popen"
    /\ Scanner \in alive
    /\ alive' = alive \cup {Git}
    /\ pgid' = pgid @@ (Git :> PopenGroup(platform))
    /\ parent' = parent @@ (Git :> Scanner)
    /\ c_pc' = "communicate"
    /\ UNCHANGED <<platform, temp_dir, returncode, reaped, c_timed_out,
                   c_result>>
    /\ UNCHANGED notCloneVars

\* lines 53-60: Popen itself raises (no git executable: FileNotFoundError;
\* a NUL byte in repo_url: ValueError).  Nothing in clone_repo catches it.
PopenFails ==
    /\ c_pc = "popen"
    /\ Scanner \in alive
    /\ c_result' = "OSError"
    /\ c_pc' = "raised"
    /\ UNCHANGED <<platform, temp_dir, alive, pgid, parent, returncode,
                   reaped, c_timed_out>>
    /\ UNCHANGED notCloneVars

\* the clone process starts a helper; a helper inherits its group
SpawnHelper ==
    /\ c_pc \in {"communicate", "kill"}
    /\ Git \in alive
    /\ \E h \in Helpers \ DOMAIN pgid :
          /\ alive' = alive \cup {h}
          /\ pgid' = pgid @@ (h :> pgid[Git])
          /\ parent' = parent @@ (h :> Git)
    /\ UNCHANGED <<platform, c_pc, temp_dir, returncode, reaped,
                   c_timed_out, c_result>>
    /\ UNCHANGED notCloneVars

\* a helper finishes on its own
HelperExit ==
    /\ \E h \in Helpers \cap alive : alive' = alive \ {h}
    /\ UNCHANGED <<platform, c_pc, temp_dir, pgid, parent, returncode,
                   reaped, c_timed_out, c_result>>
    /\ UNCHANGED notCloneVars

\* the clone process exits on its own (its helpers have finished)
GitExit ==
    /\ Git \in alive
    /\ Helpers \cap alive = {}
    /\ c_pc \in {"communicate", "kill"}
    /\ alive' = alive \ {Git}
    /\ \E rc \in {"zero", "nonzero"} : returncode' = rc
    /\ UNCHANGED <<platform, c_pc, temp_dir, pgid, parent, reaped,
                   c_timed_out, c_result>>
    /\ UNCHANGED notCloneVars

\* line 63: proc.communicate(timeout=...) returns once the process exited
CommunicateReturns ==
    /\ c_pc = "communicate"
    /\ Scanner \in alive
    /\ Git \notin alive
    /\ reaped' = TRUE
    /\ c_pc' = "check_rc"
    /\ UNCHANGED <<platform, temp_dir, alive, pgid, parent, returncode,
                   c_timed_out, c_result>>
    /\ UNCHANGED notCloneVars

\* lines 64-65: the timeout expires while the clone process still runs
CommunicateTimeout ==
    /\ c_pc = "communicate"
    /\ Scanner \in alive
    /\ Git \in alive
    /\ c_timed_out' = TRUE
    /\ c_pc' = "kill"
    /\ UNCHANGED <<platform, temp_dir, alive, pgid, parent, returncode,
                   reaped, c_result>>
    /\ UNCHANGED notCloneVars

\* line 66: _kill_process_tree(proc.pid)
KillTree ==
    /\ c_pc = "kill"
    /\ Scanner \in alive
    /\ LET gone == kill_process_tree(platform, Git)
       IN  /\ alive' = alive \ gone
           /\ returncode' = IF Git \in gone THEN "nonzero" ELSE returncode
           \* a killed interpreter executes nothing further
           /\ c_pc' = IF Scanner \in gone THEN "killed" ELSE "wait"
    /\ UNCHANGED <<platform, temp_dir, pgid, parent, reaped, c_timed_out,
                   c_result>>
    /\ UNCHANGED notCloneVars

\* line 67: proc.wait()
Wait ==
    /\ c_pc = "wait"
    /\ Scanner \in alive
    /\ Git \notin alive
    /\ reaped' = TRUE
    /\ c_pc' = "rmtree_timeout"
    /\ UNCHANGED <<platform, temp_dir, alive, pgid, parent, returncode,
                   c_timed_out, c_result>>
    /\ UNCHANGED notCloneVars

\* lines 68-69: shutil.rmtree(temp_dir, ignore_errors=True); raise
RaiseTimedOut ==
    /\ c_pc = "rmtree_timeout"
    /\ Scanner \in alive
    /\ temp_dir' = "removed"
    /\ c_result' = "RuntimeError"
    /\ c_pc' = "raised"
    /\ UNCHANGED <<platform, alive, pgid, parent, returncode, reaped,
                   c_timed_out>>
    /\ UNCHANGED notCloneVars

\* lines 71-74: non-zero exit: rmtree, raise RuntimeError("Clone failed")
RaiseCloneFailed ==
    /\ c_pc = "check_rc"
    /\ Scanner \in alive
    /\ returncode # "zero"
    /\ temp_dir' = "removed"
    /\ c_result' = "RuntimeError"
    /\ c_pc' = "raised"
    /\ UNCHANGED <<platform, alive, pgid, parent, returncode, reaped,
                   c_timed_out>>
    /\ UNCHANGED notCloneVars

\* line 76: return temp_dir
ReturnPath ==
    /\ c_pc = "check_rc"
    /\ Scanner \in alive
    /\ returncode = "zero"
    /\ c_result' = "path"
    /\ c_pc' = "returned"
    /\ UNCHANGED <<platform, temp_dir, alive, pgid, parent, returncode,
                   reaped, c_timed_out>>
    /\ UNCHANGED notCloneVars

CloneStep ==
    \/ Mkdtemp
    \/ PopenOk
    \/ PopenFails
    \/ SpawnHelper
    \/ HelperExit
    \/ GitExit
    \/ CommunicateReturns
    \/ CommunicateTimeout
    \/ KillTree
    \/ Wait
    \/ RaiseTimedOut
    \/ RaiseCloneFailed
    \/ ReturnPath

\* ========================================================================
\* utils/file_scanner.py
\* ========================================================================
SUPPORTED_EXTENSIONS == {".py", ".js", ".ts", ".jsx", ".tsx"}

SKIP_EXTENSIONS ==
    {".min.js", ".lock", ".png", ".jpg", ".jpeg", ".gif", ".svg", ".ico",
     ".zip", ".tar", ".gz", ".bz2", ".7z", ".rar",
     ".pdf", ".map", ".woff", ".woff2", ".ttf", ".eot",
     ".pyc", ".pyo", ".so", ".dll", ".exe", ".bin",
     ".mp3", ".mp4", ".wav", ".avi", ".mov"}

IGNORED_DIRS ==
    {"node_modules", "venv", ".venv", ".tox", "__pycache__",
     ".git", ".idea", ".vscode", ".next", ".nuxt",
     "build", "dist", "out", "target",
     "vendor", "coverage", "__pypackages__",
     ".mypy_cache", ".pytest_cache", ".cache",
     "test_samples", "tests"}

\* The limits keep their order (loaded < indexed < walked) but are scaled
\* down from 150 / 800 / 10_000 so that every one of them is reached.
MAX_FILES_INITIAL == 2
MAX_TOTAL_FILES == 4
HARD_TREE_CAP == 7
MAX_FILE_SIZE == 500 * 1024

\* Directory names a listing may hold: a source directory, a directory of
\* IGNORED_DIRS, and a hidden directory that IGNORED_DIRS does not name.
DirNames == {"src", "tests", ".github"}

\* d.startswith('.')
StartsWithDot(d) == d \in {".github", ".venv", ".tox", ".git", ".idea",
                           ".vscode", ".next", ".nuxt", ".mypy_cache",
                           ".pytest_cache", ".cache"}

\* A filename as os.path.splitext sees it: stem and last extension.
\* endswith('.min.js') is the stem ending in ".min" before a ".js".
FileNames ==
    {[stem |-> "app",     ext |-> ".py"],
     [stem |-> "View",    ext |-> ".TSX"],
     [stem |-> "lib.min", ext |-> ".js"],
     [stem |-> "logo",    ext |-> ".png"],
     [stem |-> "README",  ext |-> ".md"]}

\* str.lower() on the extensions of FileNames
Lower(e) == IF e = ".TSX" THEN ".tsx" ELSE e

\* os.path.splitext(filename)[1].lower()
ExtOf(filename) == Lower(filename.ext)

\* filename.endswith('.min.js')
EndsWithMinJs(filename) == filename.stem = "lib.min" /\ filename.ext = ".js"

\* A faulty variant of lines 59-62: the test of the leading dot is missing
PruneDirs_named_only(dirs) == {d \in dirs : d \notin IGNORED_DIRS}

\* lines 59-62: the in-place pruning of `dirs`
PruneDirs(dirs) ==
    {d \in dirs : d \notin IGNORED_DIRS /\ ~StartsWithDot(d)}

\* lines 70-79: is this filename recorded in code_paths?
IsCodeFile(filename) ==
    /\ ExtOf(filename) \notin SKIP_EXTENSIONS
    /\ ~EndsWithMinJs(filename)
    /\ ExtOf(filename) \in SUPPORTED_EXTENSIONS

\* What phase 2 can meet for one path: a size with the file readable, or
\* os.path.getsize / open / read raising (the size then plays no part).
Sizes == {MAX_FILE_SIZE, MAX_FILE_SIZE + 1}
DiskStates ==
    {[size |-> s, readable |-> TRUE] : s \in Sizes}
    \cup {[size |-> 0, readable |-> FALSE]}

\* A faulty variant of line 103: a file of exactly MAX_FILE_SIZE bytes is
\* skipped as well
IsLoaded_below_limit(d) == d.readable /\ ~(d.size >= MAX_FILE_SIZE)

\* lines 101-116: does this path end up in `loaded`?
IsLoaded(d) == d.readable /\ ~(d.size > MAX_FILE_SIZE)

RECURSIVE load_files(_, _, _)
\* lines 97-116: the phase-2 loop over files_to_scan[k..]
load_files(files_to_scan, disk, k) ==
    IF k > Len(files_to_scan) THEN <<>>
    ELSE (IF IsLoaded(disk[k])
          THEN <<[path |-> files_to_scan[k],
                  extension |-> files_to_scan[k].ext]>>
          ELSE <<>>)
         \o load_files(files_to_scan, disk, k + 1)

\* A faulty variant of line 96: the slice is missing
Prefix_unsliced(seq, n) == seq

\* line 96: code_paths[:MAX_FILES_INITIAL]
Prefix(seq, n) == SubSeq(seq, 1, IF Len(seq) < n THEN Len(seq) ELSE n)

\* line 93
was_truncated_of(total_found, hit) ==
    total_found > MAX_FILES_INITIAL \/ hit

NoResult == [none |-> TRUE]

\* lines 92-127: everything after the walk, for a given state of the disk
scan_result(paths, hit, disk) ==
    [files         |-> load_files(Prefix(paths, MAX_FILES_INITIAL), disk, 1),
     total_found   |-> Len(paths),
     was_truncated |-> was_truncated_of(Len(paths), hit)]

InitScanIdle ==
    /\ s_pc = "idle"
    /\ walk_stack = <<>>
    /\ cur_root = <<>>
    /\ files_in_dir = 0
    /\ code_paths = <<>>
    /\ tree_entries_seen = 0
    /\ hit_tree_cap = FALSE
    /\ dirs_walked = 0
    /\ pruned_names = {}
    /\ s_disk = <<>>
    /\ s_result = NoResult

\* lines 52-54: the locals before the walk; os.walk starts at repo_path
InitScanVars ==
    /\ s_pc = "walk"
    /\ walk_stack = << <<>> >>
    /\ cur_root = <<>>
    /\ files_in_dir = 0
    /\ code_paths = <<>>
    /\ tree_entries_seen = 0
    /\ hit_tree_cap = FALSE
    /\ dirs_walked = 0
    /\ pruned_names = {}
    /\ s_disk = <<>>
    /\ s_result = NoResult

\* the subdirectories a listing holds, in the order os.walk descends
DirOrder == <<"src", "tests", ".github">>

RECURSIVE Children(_, _, _)
\* root joined with each name of DirOrder[k..] that is in `dirs`
Children(root, dirs, k) ==
    IF k > Len(DirOrder) THEN <<>>
    ELSE (IF DirOrder[k] \in dirs THEN <<Append(root, DirOrder[k])>> ELSE <<>>)
         \o Children(root, dirs, k + 1)

\* lines 57-62: os.walk yields the next (root, dirs, filenames); `dirs` is
\* pruned in place before os.walk descends.
WalkNextDir ==
    /\ s_pc = "walk"
    /\ walk_stack # <<>>
    /\ LET root == Head(walk_stack)
       IN  \E dirs \in SUBSET DirNames :
              /\ (Len(root) >= MaxDepth => dirs = {})
              /\ cur_root' = root
              /\ walk_stack' =
                    Children(root, PruneDirs(dirs), 1) \o Tail(walk_stack)
              /\ pruned_names' = pruned_names \cup (dirs \ PruneDirs(dirs))
    /\ files_in_dir' = 0
    /\ dirs_walked' = dirs_walked + 1
    /\ s_pc' = "files"
    /\ UNCHANGED <<code_paths, tree_entries_seen, hit_tree_cap, s_disk,
                   s_result>>
    /\ UNCHANGED notScanVars

\* lines 64-68: the next filename is the HARD_TREE_CAP-th entry
VisitFileHitsCap ==
    /\ s_pc = "files"
    /\ files_in_dir < MaxFilesPerDir
    /\ tree_entries_seen + 1 >= HARD_TREE_CAP
    /\ tree_entries_seen' = tree_entries_seen + 1
    /\ hit_tree_cap' = TRUE
    \* break, then lines 89-90 break the walk
    /\ s_pc' = "load"
    /\ files_in_dir' = files_in_dir + 1
    /\ UNCHANGED <<walk_stack, cur_root, code_paths, dirs_walked,
                   pruned_names, s_disk, s_result>>
    /\ UNCHANGED notScanVars

\* lines 64-87: one iteration of the filename loop below the hard cap
VisitFile ==
    /\ s_pc = "files"
    /\ files_in_dir < MaxFilesPerDir
    /\ tree_entries_seen + 1 < HARD_TREE_CAP
    /\ tree_entries_seen' = tree_entries_seen + 1
    /\ files_in_dir' = files_in_dir + 1
    /\ \E filename \in FileNames :
          IF IsCodeFile(filename)
          THEN LET rel == [dir  |-> cur_root,
                           rank |-> Len(code_paths) + 1,
                           ext  |-> ExtOf(filename)]
               IN  /\ code_paths' = Append(code_paths, rel)
                   /\ hit_tree_cap' = IF Len(code_paths') >= MAX_TOTAL_FILES
                                      THEN TRUE ELSE hit_tree_cap
                   /\ s_pc' = IF hit_tree_cap' THEN "load" ELSE "files"
          ELSE UNCHANGED <<code_paths, hit_tree_cap, s_pc>>
    /\ UNCHANGED <<walk_stack, cur_root, dirs_walked, pruned_names, s_disk,
                   s_result>>
    /\ UNCHANGED notScanVars

\* the filename loop of this directory is exhausted; lines 89-90 do not break
EndOfDir ==
    /\ s_pc = "files"
    /\ s_pc' = IF walk_stack = <<>> THEN "load" ELSE "walk"
    /\ UNCHANGED <<walk_stack, cur_root, files_in_dir, code_paths,
                   tree_entries_seen, hit_tree_cap, dirs_walked,
                   pruned_names, s_disk, s_result>>
    /\ UNCHANGED notScanVars

\* lines 92-127: phase 2 and the return
LoadAndReturn ==
    /\ s_pc = "load"
    /\ \E disk \in [1..Len(Prefix(code_paths, MAX_FILES_INITIAL)) -> DiskStates] :
          /\ s_disk' = disk
          /\ s_result' = scan_result(code_paths, hit_tree_cap, disk)
    /\ s_pc' = "done"
    /\ UNCHANGED <<walk_stack, cur_root, files_in_dir, code_paths,
                   tree_entries_seen, hit_tree_cap, dirs_walked,
                   pruned_names>>
    /\ UNCHANGED notScanVars

ScanStep ==
    \/ WalkNextDir
    \/ VisitFileHitsCap
    \/ VisitFile
    \/ EndOfDir
    \/ LoadAndReturn

InitCloneIdle ==
    /\ platform = "posix"
    /\ c_pc = "idle"
    /\ temp_dir = "none"
    /\ alive = {Scanner}
    /\ pgid = (Scanner :> ScannerGroup)
    /\ parent = (Scanner :> Scanner)
    /\ returncode = "none"
    /\ reaped = FALSE
    /\ c_timed_out = FALSE
    /\ c_result = "none"

\* ========================================================================
\* main.py: _run_agents_parallel
\* ========================================================================
\* lines 135-139: the keys of `tasks`, in dict order
TaskNames == <<"secrets_detected", "sql_injection", "missing_auth">>
Categories == {TaskNames[i] : i \in 1..Len(TaskNames)}

\* One finding of each detector, with the keys the detector sets
\* (secrets_agent.py 35-42, sql_agent.py 54-62, auth_agent.py 81-89).
SecretFinding ==
    [file |-> 1, line |-> 1, type |-> "Password/Secret", severity |-> "HIGH",
     matched |-> "password =***REDACTED***",
     explanation |-> "Potential Password/Secret found."]
SqlFinding ==
    [file |-> 1, line |-> 2, type |-> "SQL Injection", severity |-> "CRITICAL",
     code_snippet |-> "q = 'SELECT ' + name",
     vulnerability |-> "String concatenation in SQL query",
     explanation |-> "String concatenation in SQL query detected."]
AuthFinding ==
    [file |-> 1, line |-> 3, type |-> "Missing Authentication",
     severity |-> "MEDIUM", endpoint |-> "router.post('/items'",
     framework |-> "JavaScript",
     explanation |-> "This endpoint appears to lack authentication middleware."]
AuthFindingHigh ==
    [file |-> 1, line |-> 4, type |-> "Missing Authentication",
     severity |-> "HIGH", endpoint |-> "@app.post('/admin'",
     framework |-> "Python",
     explanation |-> "This endpoint appears to lack authentication middleware."]

\* The lists a detector can return for a file set.
DetectorReturns(name) ==
    CASE name = "secrets_detected" -> {<<>>, <<SecretFinding>>}
      [] name = "sql_injection"    -> {<<>>, <<SqlFinding>>,
                                       <<SqlFinding, SqlFinding>>}
      [] name = "missing_auth"     -> {<<>>, <<AuthFinding>>,
                                       <<AuthFindingHigh, AuthFinding>>}

\* A faulty variant: every submitted callable is bound to the last entry of
\* `tasks`
future_outcome_late_bound(name, returns, faulty) ==
    IF TaskNames[Len(TaskNames)] \in faulty
    THEN [raised |-> TRUE, value |-> <<>>]
    ELSE [raised |-> FALSE, value |-> returns[TaskNames[Len(TaskNames)]]]

\* What a finished future holds: the detector's return value, or the
\* exception it raised.
future_outcome(name, returns, faulty) ==
    IF name \in faulty
    THEN [raised |-> TRUE, value |-> <<>>]
    ELSE [raised |-> FALSE, value |-> returns[name]]

\* A faulty variant of lines 146-150: the except branch is missing, and the
\* category keeps what the detector had produced
collected_value_unguarded(name, returns, faulty) == returns[name]

\* A faulty variant of lines 146-150: the result is stored under the key
\* of the next entry of `tasks` not yet stored, whichever future yielded
collected_value_by_arrival(name, returns, faulty) ==
    IF TaskNames[Len(a_key_order) + 1] \in faulty THEN <<>>
    ELSE returns[TaskNames[Len(a_key_order) + 1]]

\* lines 146-150: what is stored under findings[name] for a finished
\* future: fut.result(), or [] when fut.result() raises
collected_value(name, returns, faulty) ==
    IF future_outcome(name, returns, faulty).raised
    THEN <<>>
    ELSE future_outcome(name, returns, faulty).value

\* the loaded file sets the orchestrator is called with (never empty:
\* _blocking_scan returns before the call when no file was loaded)
LoadedFile(k) == [path |-> [dir |-> <<>>, rank |-> k, ext |-> ".py"],
                  extension |-> ".py"]
FileSets == {[i \in 1..n |-> LoadedFile(i)] : n \in 1..MAX_FILES_INITIAL}

InitAgentsIdle ==
    /\ a_pc = "idle"
    /\ a_files = <<>>
    /\ a_returns = [c \in Categories |-> <<>>]
    /\ a_faulty = {}
    /\ a_future = [c \in Categories |-> "unsubmitted"]
    /\ a_findings = <<>>
    /\ a_key_order = <<>>
    /\ a_writes = [c \in Categories |-> 0]
    /\ a_log = {}

\* lines 129-140: the call, with what each detector does on these files
InitAgentVars ==
    /\ a_pc = "submit"
    /\ a_files \in FileSets
    /\ a_returns \in [Categories -> UNION {DetectorReturns(c) : c \in Categories}]
    /\ \A c \in Categories : a_returns[c] \in DetectorReturns(c)
    /\ a_faulty \in SUBSET Categories
    /\ a_future = [c \in Categories |-> "unsubmitted"]
    /\ a_findings = <<>>
    /\ a_key_order = <<>>
    /\ a_writes = [c \in Categories |-> 0]
    /\ a_log = {}

\* line 143: pool.submit(fn, files) for the next entry of `tasks`
Submit ==
    /\ a_pc = "submit"
    /\ \E i \in 1..Len(TaskNames) :
          /\ a_future[TaskNames[i]] = "unsubmitted"
          /\ \A j \in 1..(i - 1) : a_future[TaskNames[j]] # "unsubmitted"
          /\ a_future' = [a_future EXCEPT ![TaskNames[i]] = "running"]
          /\ a_pc' = IF i = Len(TaskNames) THEN "collect" ELSE "submit"
    /\ UNCHANGED <<a_files, a_returns, a_faulty, a_findings, a_key_order,
                   a_writes, a_log>>
    /\ UNCHANGED notAgentVars

\* a pool worker finishes its detector: the future holds a result or an
\* exception
TaskFinish ==
    /\ a_pc \in {"submit", "collect"}
    /\ \E c \in Categories :
          /\ a_future[c] = "running"
          /\ a_future' = [a_future EXCEPT ![c] = "finished"]
    /\ UNCHANGED <<a_pc, a_files, a_returns, a_faulty, a_findings,
                   a_key_order, a_writes, a_log>>
    /\ UNCHANGED notAgentVars

\* lines 144-150: as_completed yields a finished future not yet yielded
Collect ==
    /\ a_pc = "collect"
    /\ \E c \in Categories :
          /\ a_future[c] = "finished"
          /\ a_writes[c] = 0
          /\ a_findings' =
                [k \in DOMAIN a_findings \cup {c} |->
                    IF k = c THEN collected_value(c, a_returns, a_faulty)
                    ELSE a_findings[k]]
          /\ a_key_order' = IF c \in DOMAIN a_findings THEN a_key_order
                            ELSE Append(a_key_order, c)
          /\ a_writes' = [a_writes EXCEPT ![c] = @ + 1]
          /\ a_log' = IF future_outcome(c, a_returns, a_faulty).raised
                      THEN a_log \cup {c} ELSE a_log
    /\ UNCHANGED <<a_pc, a_files, a_returns, a_faulty, a_future>>
    /\ UNCHANGED notAgentVars

\* line 152: every future was yielded; the pool is shut down; return
AgentsReturn ==
    /\ a_pc = "collect"
    /\ \A c \in Categories : a_future[c] = "finished" /\ a_writes[c] > 0
    /\ a_pc' = "returned"
    /\ UNCHANGED <<a_files, a_returns, a_faulty, a_future, a_findings,
                   a_key_order, a_writes, a_log>>
    /\ UNCHANGED notAgentVars

AgentStep ==
    \/ Submit
    \/ TaskFinish
    \/ Collect
    \/ AgentsReturn

\* ---- the orchestrator called a second time on the same files ----
InitRerunIdle ==
    /\ a_run = 0
    /\ a_prev = <<>>
    /\ a_prev_order = <<>>

InitRerunVars ==
    /\ a_run = 1
    /\ a_prev = <<>>
    /\ a_prev_order = <<>>

\* lines 129-140, the second call: `tasks`, `findings` and the pool are
\* locals built anew; `files` is the list the first call was given, and a
\* detector reads nothing but `files` and module constants
\* (secrets_agent.py 19-44, sql_agent.py 42-67, auth_agent.py 38-91), so
\* it returns, or raises, what it did on the first call
RunAgain ==
    /\ a_pc = "returned"
    /\ a_run = 1
    /\ a_run' = 2
    /\ a_prev' = a_findings
    /\ a_prev_order' = a_key_order
    /\ a_pc' = "submit"
    /\ a_future' = [c \in Categories |-> "unsubmitted"]
    /\ a_findings' = <<>>
    /\ a_key_order' = <<>>
    /\ a_writes' = [c \in Categories |-> 0]
    /\ UNCHANGED <<a_files, a_returns, a_faulty, a_log>>
    /\ UNCHANGED <<cloneVars, scanVars, reqVars, secretVars, authVars,
                   sqlVars, graphVars, fixVars>>

RerunStep ==
    \/ AgentStep
    \/ RunAgain

\* ========================================================================
\* main.py: generate_summary, _blocking_scan, analyze_repo
\* ========================================================================
CLONE_FAIL_MSG == "Unable to scan this repository. Try another public repository."

EmptyFindings == [c \in Categories |-> <<>>]

\* A faulty variant of line 122: the severity is used as the detector wrote
\* it
severity_key_as_written(item) == item.severity

\* line 122: item.get('severity', 'MEDIUM').lower(), for the severities the
\* detectors write (each of them in upper case)
severity_key(item) ==
    LET severity == IF "severity" \in DOMAIN item THEN item.severity
                    ELSE "MEDIUM"
    IN  CASE severity = "CRITICAL" -> "critical"
          [] severity = "HIGH"     -> "high"
          [] severity = "MEDIUM"   -> "medium"
          [] severity = "LOW"      -> "low"
          [] OTHER                 -> severity

RECURSIVE CountSeverity(_, _, _)
\* lines 121-124, for one category: items[k..] counted under the key `sev`
CountSeverity(items, sev, k) ==
    IF k > Len(items) THEN 0
    ELSE (IF severity_key(items[k]) = sev THEN 1 ELSE 0)
         + CountSeverity(items, sev, k + 1)

RECURSIVE SumOver(_, _, _)
\* sum of f[TaskNames[k]] for the categories TaskNames[k..]
SumOver(f, names, k) ==
    IF k > Len(names) THEN 0 ELSE f[names[k]] + SumOver(f, names, k + 1)

\* lines 104-126
generate_summary(findings) ==
    LET sev(s) == SumOver([c \in Categories |->
                              CountSeverity(findings[c], s, 1)], TaskNames, 1)
    IN  [total_findings   |-> SumOver([c \in Categories |-> Len(findings[c])],
                                      TaskNames, 1),
         critical         |-> sev("critical"),
         high             |-> sev("high"),
         medium           |-> sev("medium"),
         low              |-> sev("low"),
         secrets_detected |-> Len(findings["secrets_detected"]),
         sql_injection    |-> Len(findings["sql_injection"]),
         missing_auth     |-> Len(findings["missing_auth"])]

\* agents/ai_explainer.py lines 17-68: the shapes of an explanation. The
\* service is not configured, answers, cannot be reached ("failed") or
\* rejects the request ("rejected"); ai_risk is a sequence of characters.
AiModes == {"unconfigured", "answered", "failed", "rejected"}

\* str(e) of the exception client.chat.completions.create raises
ConnectionErrorText ==
    <<"C", "o", "n", "n", "e", "c", "t", "i", "o", "n", " ", "e", "r", "r", "o", "r", ".">>
StatusErrorText ==
    <<"E", "r", "r", "o", "r", " ", "c", "o", "d", "e", ":", " ", "4", "0", "1", " ", "-", " ", "{", "'", "e", "r", "r", "o", "r", "'", ":", " ", "{", "'", "m", "e", "s", "s", "a", "g", "e", "'", ":", " ", "'", "I", "n", "v", "a", "l", "i", "d", " ", "A", "P", "I", " ", "K", "e", "y", "'", ",", " ", "'", "t", "y", "p", "e", "'", ":", " ", "'", "i", "n", "v", "a", "l", "i", "d", "_", "r", "e", "q", "u", "e", "s", "t", "_", "e", "r", "r", "o", "r", "'", ",", " ", "'", "c", "o", "d", "e", "'", ":", " ", "'", "i", "n", "v", "a", "l", "i", "d", "_", "a", "p", "i", "_", "k", "e", "y", "'", "}", "}">>
service_error(mode) ==
    IF mode = "failed" THEN ConnectionErrorText ELSE StatusErrorText

AiUnavailableText ==
    <<"A", "I", " ", "e", "x", "p", "l", "a", "n", "a", "t", "i", "o", "n", " ", "u", "n", "a", "v", "a", "i", "l", "a", "b", "l", "e", " ", "(", "G", "R", "O", "Q", "_", "A", "P", "I", "_", "K", "E", "Y", " ", "n", "o", "t", " ", "s", "e", "t", ")">>
AiFailedPrefix ==
    <<"A", "I", " ", "e", "x", "p", "l", "a", "n", "a", "t", "i", "o", "n", " ", "f", "a", "i", "l", "e", "d", ":", " ">>
AiAnsweredRisk ==
    <<"S", "e", "c", "r", "e", "t", "s", " ", "i", "n", " ", "s", "o", "u", "r", "c", "e", " ", "a", "r", "e", " ", "r", "e", "a", "d", "a", "b", "l", "e", " ", "b", "y", " ", "a", "n", "y", "o", "n", "e", " ", "w", "i", "t", "h", " ", "t", "h", "e", " ", "c", "o", "d", "e", ".">>

\* line 65: str(e)[:50]
exception_excerpt(text) ==
    SubSeq(text, 1, IF Len(text) < 50 THEN Len(text) ELSE 50)

generate_ai_explanation(mode) ==
    CASE mode = "unconfigured" ->
            [ai_risk |-> AiUnavailableText, ai_exploit |-> "", ai_fix |-> ""]
      [] mode = "answered" ->
            [ai_risk |-> AiAnsweredRisk, ai_exploit |-> "exploit",
             ai_fix |-> "fix"]
      [] mode \in {"failed", "rejected"} ->
            [ai_risk |-> AiFailedPrefix
                         \o exception_excerpt(service_error(mode)),
             ai_exploit |-> "", ai_fix |-> ""]

\* A faulty variant of lines 71-93: the explanation replaces the finding
\* instead of being merged into it
enhance_findings_with_ai_replacing(findings, mode) ==
    [c \in DOMAIN findings |->
        [k \in 1..Len(findings[c]) |-> generate_ai_explanation(mode)]]

\* agents/ai_explainer.py lines 71-93: {**finding, **ai_explanation}
enhance_findings_with_ai(findings, mode) ==
    [c \in DOMAIN findings |->
        [k \in 1..Len(findings[c]) |->
            generate_ai_explanation(mode) @@ findings[c][k]]]

NoticeNone == "None"
NoticeNoFiles ==
    "No supported source files (.py, .js, .ts) found in initial scan window."
NoticeLarge == "Large repository detected. Showing results from first n of m files."
NoticeLimited ==
    "Scan completed with limited results due to repository complexity."

\* A faulty variant of lines 182-189: the flag and the notice are those
\* of a completed scan
zero_files_result_unflagged(repo_path, total_found) ==
    [files         |-> <<>>,
     findings      |-> EmptyFindings,
     repo_path     |-> repo_path,
     total_found   |-> total_found,
     was_truncated |-> FALSE,
     scan_notice   |-> NoticeNone]

\* lines 182-189: the result when no file was loaded
zero_files_result(repo_path, total_found) ==
    [files         |-> <<>>,
     findings      |-> EmptyFindings,
     repo_path     |-> repo_path,
     total_found   |-> total_found,
     was_truncated |-> TRUE,
     scan_notice   |-> NoticeNoFiles]

\* lines 200-215: the result of a completed scan
scan_completed_result(repo_path, scan, findings) ==
    [files         |-> scan.files,
     findings      |-> findings,
     repo_path     |-> repo_path,
     total_found   |-> scan.total_found,
     was_truncated |-> scan.was_truncated,
     scan_notice   |-> IF scan.was_truncated THEN NoticeLarge ELSE NoticeNone]

\* A faulty variant of lines 217-227: the flag and the notice are left at
\* their defaults
post_clone_failure_unflagged(repo_path) ==
    [files         |-> <<>>,
     findings      |-> EmptyFindings,
     repo_path     |-> repo_path,
     total_found   |-> 0,
     was_truncated |-> FALSE,
     scan_notice   |-> NoticeNone]

\* lines 217-227: the result after a post-clone exception
post_clone_failure_result(repo_path) ==
    [files         |-> <<>>,
     findings      |-> EmptyFindings,
     repo_path     |-> repo_path,
     total_found   |-> 0,
     was_truncated |-> TRUE,
     scan_notice   |-> NoticeLimited]

\* A faulty variant of line 290: the comparison of the counts is missing
partial_scan_flag_only(was_truncated, total_found, n_files) == was_truncated

\* line 290
partial_scan_of(was_truncated, total_found, n_files) ==
    was_truncated \/ total_found > n_files

\* lines 279-301: the report built from the worker's result
build_report(url, result) ==
    [repo_url      |-> url,
     files_scanned |-> Len(result.files),
     total_files   |-> result.total_found,
     partial_scan  |-> partial_scan_of(result.was_truncated,
                                       result.total_found, Len(result.files)),
     scan_notice   |-> result.scan_notice,
     summary       |-> generate_summary(result.findings),
     findings      |-> result.findings]

NoResponse == [none |-> TRUE]
\* line 254
EmptyUrlResponse ==
    [status_code |-> 400, error |-> "Please enter a repository URL."]
\* lines 266-269 and 273-276
CloneFailResponse == [status_code |-> 400, error |-> CLONE_FAIL_MSG]

\* utils/repo_handler.py lines 79-82: is the directory on disk afterwards?
cleanup_repo(repo_path, exists) ==
    IF repo_path # "none" /\ exists THEN FALSE ELSE exists

\* How a call of clone_repo can end (SpecClone): the path is returned and
\* the directory exists; RuntimeError after the directory was removed; an
\* exception of Popen with the directory left behind; the process killed.
CloneOutcomes ==
    {[result |-> "path",         dir |-> TRUE],
     [result |-> "RuntimeError", dir |-> FALSE],
     [result |-> "OSError",      dir |-> TRUE],
     [result |-> "killed",       dir |-> TRUE]}

\* How the walk of scan_files can end (SpecScan): a discovery list of n
\* paths and hit_tree_cap.
WalkOutcomeOk(n, hit) ==
    /\ n \in 0..MAX_TOTAL_FILES
    /\ (n >= MAX_TOTAL_FILES => hit)

DiscoveryList(n) == [i \in 1..n |-> [dir |-> <<>>, rank |-> i, ext |-> ".py"]]

InitReqIdle ==
    /\ r_url = ""
    /\ h_pc = "idle"
    /\ h_response = NoResponse
    /\ w_pc = "idle"
    /\ w_repo_path = "none"
    /\ dir_exists = FALSE
    /\ cleanup_calls = 0
    /\ w_scan = NoResult
    /\ w_hit_cap = FALSE
    /\ w_findings = EmptyFindings
    /\ w_result = NoResult
    /\ w_exc = "none"
    /\ w_log = {}

\* lines 249-252
InitReqVars ==
    /\ r_url \in {"", "https://github.com/owner/repo"}
    /\ h_pc = "start"
    /\ h_response = NoResponse
    /\ w_pc = "idle"
    /\ w_repo_path = "none"
    /\ dir_exists = FALSE
    /\ cleanup_calls = 0
    /\ w_scan = NoResult
    /\ w_hit_cap = FALSE
    /\ w_findings = EmptyFindings
    /\ w_result = NoResult
    /\ w_exc = "none"
    /\ w_log = {}

\* lines 253-254
RejectEmptyUrl ==
    /\ h_pc = "start"
    /\ r_url = ""
    /\ h_response' = EmptyUrlResponse
    /\ h_pc' = "responded"
    /\ UNCHANGED <<r_url, w_pc, w_repo_path, dir_exists, cleanup_calls,
                   w_scan, w_hit_cap, w_findings, w_result, w_exc, w_log>>
    /\ UNCHANGED notReqVars

\* lines 258-263: run_in_executor(_executor, _blocking_scan, url)
SubmitScan ==
    /\ h_pc = "start"
    /\ r_url # ""
    /\ h_pc' = "awaiting"
    /\ w_pc' = "clone"
    /\ UNCHANGED <<r_url, h_response, w_repo_path, dir_exists, cleanup_calls,
                   w_scan, w_hit_cap, w_findings, w_result, w_exc, w_log>>
    /\ UNCHANGED notReqVars

\* line 167: repo_path = clone_repo(repo_url)
WorkerClone ==
    /\ w_pc = "clone"
    /\ \E o \in CloneOutcomes :
          /\ dir_exists' = o.dir
          /\ w_repo_path' = IF o.result = "path" THEN "dir" ELSE "none"
          /\ w_exc' = IF o.result \in {"RuntimeError", "OSError"}
                      THEN o.result ELSE "none"
          /\ w_pc' = CASE o.result = "path"   -> "scan"
                       [] o.result = "killed" -> "killed"
                       [] OTHER               -> "raised"
    /\ UNCHANGED <<r_url, h_pc, h_response, cleanup_calls, w_scan, w_hit_cap,
                   w_findings, w_result, w_log>>
    /\ UNCHANGED notReqVars

\* lines 173-189: scan_files returns; no file loaded returns at once
WorkerScan ==
    /\ w_pc = "scan"
    /\ \E n \in 0..MAX_TOTAL_FILES, hit \in BOOLEAN :
          /\ WalkOutcomeOk(n, hit)
          /\ \E disk \in [1..Len(Prefix(DiscoveryList(n), MAX_FILES_INITIAL))
                             -> DiskStates] :
                LET scan == scan_result(DiscoveryList(n), hit, disk)
                IN  /\ w_scan' = scan
                    /\ w_hit_cap' = hit
                    /\ IF scan.files = <<>>
                       THEN /\ w_result' = zero_files_result(w_repo_path,
                                                             scan.total_found)
                            /\ w_pc' = "returned"
                       ELSE /\ w_result' = w_result
                            /\ w_pc' = "agents"
    /\ UNCHANGED <<r_url, h_pc, h_response, w_repo_path, dir_exists,
                   cleanup_calls, w_findings, w_exc, w_log>>
    /\ UNCHANGED notReqVars

\* lines 173 + 217-227: scan_files raises
WorkerScanRaises ==
    /\ w_pc = "scan"
    /\ w_log' = w_log \cup {"post_clone:sampling"}
    /\ w_result' = post_clone_failure_result(w_repo_path)
    /\ w_pc' = "returned"
    /\ UNCHANGED <<r_url, h_pc, h_response, w_repo_path, dir_exists,
                   cleanup_calls, w_scan, w_hit_cap, w_findings, w_exc>>
    /\ UNCHANGED notReqVars

\* line 192: findings = _run_agents_parallel(files)
WorkerAgents ==
    /\ w_pc = "agents"
    /\ \E returns \in [Categories -> UNION {DetectorReturns(c) : c \in Categories}],
          faulty \in SUBSET Categories :
          /\ \A c \in Categories : returns[c] \in DetectorReturns(c)
          /\ w_findings' = [c \in Categories |->
                               collected_value(c, returns, faulty)]
          /\ w_log' = w_log \cup {"agent:" \o c : c \in faulty}
    /\ w_pc' = "enrich"
    /\ UNCHANGED <<r_url, h_pc, h_response, w_repo_path, dir_exists,
                   cleanup_calls, w_scan, w_hit_cap, w_result, w_exc>>
    /\ UNCHANGED notReqVars

\* lines 192 + 217-227: the orchestrator itself raises (the pool cannot
\* start a thread)
WorkerAgentsRaise ==
    /\ w_pc = "agents"
    /\ w_log' = w_log \cup {"post_clone:detection"}
    /\ w_result' = post_clone_failure_result(w_repo_path)
    /\ w_pc' = "returned"
    /\ UNCHANGED <<r_url, h_pc, h_response, w_repo_path, dir_exists,
                   cleanup_calls, w_scan, w_hit_cap, w_findings, w_exc>>
    /\ UNCHANGED notReqVars

\* lines 195-215: enrichment succeeds; build the notice; return
WorkerEnrichReturn ==
    /\ w_pc = "enrich"
    /\ \E mode \in AiModes :
          /\ w_findings' = enhance_findings_with_ai(w_findings, mode)
          /\ w_result' = scan_completed_result(w_repo_path, w_scan, w_findings')
    /\ w_pc' = "returned"
    /\ UNCHANGED <<r_url, h_pc, h_response, w_repo_path, dir_exists,
                   cleanup_calls, w_scan, w_hit_cap, w_exc, w_log>>
    /\ UNCHANGED notReqVars

\* lines 195-215: enhance_findings_with_ai raises; the raw findings are
\* returned
WorkerEnrichRaises ==
    /\ w_pc = "enrich"
    /\ w_log' = w_log \cup {"enrichment"}
    /\ w_result' = scan_completed_result(w_repo_path, w_scan, w_findings)
    /\ w_pc' = "returned"
    /\ UNCHANGED <<r_url, h_pc, h_response, w_repo_path, dir_exists,
                   cleanup_calls, w_scan, w_hit_cap, w_findings, w_exc>>
    /\ UNCHANGED notReqVars

\* lines 264-269: wait_for times out while _blocking_scan is still running
\* in the executor thread; the thread is not interrupted
ScanTimeout ==
    /\ h_pc = "awaiting"
    /\ w_pc \in {"clone", "scan", "agents", "enrich"}
    /\ h_response' = CloneFailResponse
    /\ h_pc' = "responded"
    /\ UNCHANGED <<r_url, w_pc, w_repo_path, dir_exists, cleanup_calls,
                   w_scan, w_hit_cap, w_findings, w_result, w_exc, w_log>>
    /\ UNCHANGED notReqVars

\* lines 270-276: _blocking_scan raised
CloneFailed ==
    /\ h_pc = "awaiting"
    /\ w_pc = "raised"
    /\ h_response' = CloneFailResponse
    /\ h_pc' = "responded"
    /\ UNCHANGED <<r_url, w_pc, w_repo_path, dir_exists, cleanup_calls,
                   w_scan, w_hit_cap, w_findings, w_result, w_exc, w_log>>
    /\ UNCHANGED notReqVars

\* lines 278-304: the report, and cleanup_repo in the finally block
Report ==
    /\ h_pc = "awaiting"
    /\ w_pc = "returned"
    /\ h_response' = build_report(r_url, w_result)
    /\ dir_exists' = cleanup_repo(w_result.repo_path, dir_exists)
    /\ cleanup_calls' = IF w_result.repo_path # "none"
                        THEN cleanup_calls + 1 ELSE cleanup_calls
    /\ h_pc' = "responded"
    /\ UNCHANGED <<r_url, w_pc, w_repo_path, w_scan, w_hit_cap, w_findings,
                   w_result, w_exc, w_log>>
    /\ UNCHANGED notReqVars

Next ==
    \/ RejectEmptyUrl
    \/ SubmitScan
    \/ WorkerClone
    \/ WorkerScan
    \/ WorkerScanRaises
    \/ WorkerAgents
    \/ WorkerAgentsRaise
    \/ WorkerEnrichReturn
    \/ WorkerEnrichRaises
    \/ ScanTimeout
    \/ CloneFailed
    \/ Report

\* ========================================================================
\* Text and regular expressions (Python `re`)
\* ========================================================================
\* Text is a sequence of one-character strings.
LowerSeq == <<"a", "b", "c", "d", "e", "f", "g", "h", "i", "j", "k", "l", "m", "n", "o", "p", "q", "r", "s", "t", "u", "v", "w", "x", "y", "z">>
UpperSeq == <<"A", "B", "C", "D", "E", "F", "G", "H", "I", "J", "K", "L", "M", "N", "O", "P", "Q", "R", "S", "T", "U", "V", "W", "X", "Y", "Z">>
Lowers == {LowerSeq[i] : i \in 1..26}
Uppers == {UpperSeq[i] : i \in 1..26}
Digits == {"0", "1", "2", "3", "4", "5", "6", "7", "8", "9"}
Alnum == Lowers \cup Uppers \cup Digits
Newline == "\n"
Spaces == {" ", "\t"}
Punct == {"=", ":", "\"", "'", "_", "-", ".", "/", "+", "*", "@", "(", ")",
          ",", ";", "#", "{", "}", "$", "%", "[", "]", "<", ">", "!"}
\* every character but the newline, which `.` and the lines of a split
\* never hold
LineChars == Alnum \cup Spaces \cup Punct

\* str.lower() of one character
ToLower == [A |-> "a", B |-> "b", C |-> "c", D |-> "d", E |-> "e", F |-> "f", G |-> "g", H |-> "h", I |-> "i", J |-> "j", K |-> "k", L |-> "l", M |-> "m", N |-> "n", O |-> "o", P |-> "p", Q |-> "q", R |-> "r", S |-> "s", T |-> "t", U |-> "u", V |-> "v", W |-> "w", X |-> "x", Y |-> "y", Z |-> "z"]
LowerOf(c) == IF c \in Uppers THEN ToLower[c] ELSE c

\* A regular expression is a tree of these nodes.
Node(t, S, parts, lo, hi, flag) ==
    [t |-> t, set |-> S, parts |-> parts, min |-> lo, max |-> hi,
     flag |-> flag]
\* one character of the set S
Cls(S) == Node("cls", S, <<>>, 0, 0, FALSE)
\* a character class under (?i)
ClsI(S) == Cls(S \cup {LowerOf(c) : c \in S}
              \cup {u \in Uppers : LowerOf(u) \in S})
\* [^...]
NotCls(S) == Cls((LineChars \cup {Newline}) \ S)
\* a literal, and a literal under (?i): flag is the case-insensitivity
Lit(chars) == Node("lit", {}, chars, 0, 0, FALSE)
LitI(chars) == Node("lit", {}, chars, 0, 0, TRUE)
Cat(parts) == Node("cat", {}, parts, 0, 0, FALSE)
Alt(parts) == Node("alt", {}, parts, 0, 0, FALSE)
\* r{lo,hi} and r{lo,}: flag is the missing upper bound
Rep(r, lo, hi) == Node("rep", {}, <<r>>, lo, hi, FALSE)
AtLeast(r, lo) == Node("rep", {}, <<r>>, lo, lo, TRUE)
Opt(r) == Rep(r, 0, 1)
Star(r) == AtLeast(r, 0)
Plus(r) == AtLeast(r, 1)
\* \s
WS == Cls(Spaces \cup {Newline})

\* The ends of the repetitions of one character class from position i:
\* every run of re.min or more (and, unless unbounded, re.max or fewer)
\* characters of the class.
ClsRepEnds(re, s, i) ==
    {e \in (i + re.min)..(Len(s) + 1) :
        /\ re.flag \/ e - i <= re.max
        /\ \A q \in i..(e - 1) : s[q] \in re.parts[1].set}

RECURSIVE Ends(_, _, _), CatEnds(_, _, _, _), RepEnds(_, _, _, _)
\* The positions at which a match of `re` that starts at position i of s
\* can end (the index of the character after the match).
Ends(re, s, i) ==
    CASE re.t = "cls" ->
            IF i <= Len(s) /\ s[i] \in re.set THEN {i + 1} ELSE {}
      [] re.t = "lit" ->
            IF /\ i + Len(re.parts) - 1 <= Len(s)
               /\ \A j \in 1..Len(re.parts) :
                     \/ s[i + j - 1] = re.parts[j]
                     \/ /\ re.flag
                        /\ LowerOf(s[i + j - 1]) = LowerOf(re.parts[j])
            THEN {i + Len(re.parts)} ELSE {}
      [] re.t = "cat" -> CatEnds(re.parts, 1, s, {i})
      [] re.t = "alt" ->
            UNION {Ends(re.parts[k], s, i) : k \in 1..Len(re.parts)}
      [] re.t = "rep" ->
            IF re.parts[1].t = "cls" THEN ClsRepEnds(re, s, i)
            ELSE RepEnds(re, s, 0, {i})

\* parts[k..] matched from any position of `from`
CatEnds(parts, k, s, from) ==
    IF k > Len(parts) \/ from = {} THEN from
    ELSE CatEnds(parts, k + 1, s,
                 UNION {Ends(parts[k], s, p) : p \in from})

\* `from` holds the positions reached after n repetitions of re.parts[1];
\* a repetition consumes at least one character
RepEnds(re, s, n, from) ==
    IF from = {} THEN {}
    ELSE (IF n >= re.min THEN from ELSE {})
         \cup (IF re.flag \/ n < re.max
               THEN RepEnds(re, s, n + 1,
                            UNION {Ends(re.parts[1], s, p) : p \in from})
               ELSE {})

SetMax(S) == CHOOSE x \in S : \A y \in S : y <= x

\* The end of the match the engine reports at start position i, or 0.  For
\* the patterns of this model every quantifier is greedy and is followed by
\* a character its class excludes or by the end of the pattern, so the
\* reported match is the longest one.
MatchEnd(re, s, i) ==
    LET e == Ends(re, s, i) IN IF e = {} THEN 0 ELSE SetMax(e)

RECURSIVE finditer(_, _, _)
\* re.finditer(pattern, s): the non-overlapping matches from position i
\* on, leftmost first, as <<start, end>> pairs
finditer(re, s, i) ==
    IF i > Len(s) THEN <<>>
    ELSE LET e == MatchEnd(re, s, i)
         IN  IF e = 0 THEN finditer(re, s, i + 1)
             ELSE <<<<i, e>>>> \o finditer(re, s, IF e > i THEN e ELSE i + 1)

\* re.search(pattern, s) is not None
search(re, s) == \E i \in 1..(Len(s) + 1) : Ends(re, s, i) # {}

RECURSIVE split_lines(_, _, _)
\* content.split('\n'): the lines of content[k..], `cur` being the line
\* read so far
split_lines(content, k, cur) ==
    LET breaks == {j \in k..Len(content) : content[j] = Newline}
    IN  IF breaks = {} THEN <<cur \o SubSeq(content, k, Len(content))>>
        ELSE LET j == CHOOSE b \in breaks : \A c \in breaks : b <= c
             IN  <<cur \o SubSeq(content, k, j - 1)>>
                 \o split_lines(content, j + 1, <<>>)

\* s[:n]
Take(s, n) == SubSeq(s, 1, IF Len(s) < n THEN Len(s) ELSE n)

\* `needle in hay`
Contains(hay, needle) ==
    \E i \in 0..(Len(hay) - Len(needle)) :
        SubSeq(hay, i + 1, i + Len(needle)) = needle


\* ========================================================================
\* agents/secrets_agent.py
\* ========================================================================
Quote == Cls({"\"", "'"})
Assign == Cat(<<Star(WS), Cls({"=", ":"}), Star(WS), Quote>>)
SepOpt == Opt(Cls({"_", "-"}))

\* SECRET_PATTERNS: 'API Key'
PatApiKey ==
    Cat(<<Alt(<<Cat(<<LitI(<<"a", "p", "i">>), SepOpt, LitI(<<"k", "e", "y">>)>>), LitI(<<"a", "p", "i", "k", "e", "y">>)>>), Assign,
          AtLeast(Cls(Alnum), 16), Quote>>)

\* SECRET_PATTERNS: 'Password/Secret'
PatPassword ==
    Cat(<<Alt(<<LitI(<<"s", "e", "c", "r", "e", "t">>), LitI(<<"p", "a", "s", "s", "w", "o", "r", "d">>),
                LitI(<<"p", "a", "s", "s", "w", "d">>), LitI(<<"p", "w", "d">>)>>), Assign,
          AtLeast(NotCls({"\"", "'"}), 8), Quote>>)

\* SECRET_PATTERNS: 'Token'
PatToken ==
    Cat(<<Alt(<<LitI(<<"t", "o", "k", "e", "n">>),
                Cat(<<LitI(<<"a", "u", "t", "h">>), SepOpt, LitI(<<"t", "o", "k", "e", "n">>)>>),
                Cat(<<LitI(<<"a", "c", "c", "e", "s", "s">>), SepOpt, LitI(<<"t", "o", "k", "e", "n">>)>>)>>), Assign,
          AtLeast(Cls(Alnum \cup {"_", "-", "."}), 20), Quote>>)

\* SECRET_PATTERNS: 'AWS Access Key'
PatAwsAccessKey ==
    Cat(<<LitI(<<"A", "K", "I", "A">>), Rep(ClsI(Digits \cup Uppers), 16, 16)>>)

\* SECRET_PATTERNS: 'AWS Secret Key'
PatAwsSecretKey ==
    Cat(<<Alt(<<Cat(<<LitI(<<"a", "w", "s">>), SepOpt, LitI(<<"s", "e", "c", "r", "e", "t">>)>>),
                Cat(<<LitI(<<"s", "e", "c", "r", "e", "t">>), SepOpt, LitI(<<"k", "e", "y">>)>>)>>), Assign,
          Rep(Cls(Alnum \cup {"/", "+", "="}), 40, 40), Quote>>)

\* SECRET_PATTERNS: 'Private Key'
PatPrivateKey ==
    Cat(<<Lit(<<"-", "-", "-", "-", "-", "B", "E", "G", "I", "N">>), Plus(WS),
          Opt(Cat(<<Lit(<<"R", "S", "A">>), Plus(WS)>>)), Lit(<<"P", "R", "I", "V", "A", "T", "E">>), Plus(WS),
          Lit(<<"K", "E", "Y", "-", "-", "-", "-", "-">>)>>)

\* SECRET_PATTERNS: 'Database Connection String'
PatDbUrl ==
    Cat(<<Alt(<<LitI(<<"m", "y", "s", "q", "l">>), LitI(<<"p", "o", "s", "t", "g", "r", "e", "s">>),
                LitI(<<"m", "o", "n", "g", "o", "d", "b">>), LitI(<<"r", "e", "d", "i", "s">>)>>), Lit(<<":", "/", "/">>),
          Plus(NotCls({"\"", "'"} \cup Spaces \cup {Newline})), Cls({":"}),
          Plus(NotCls({"\"", "'"} \cup Spaces \cup {Newline})), Cls({"@"})>>)

\* SECRET_PATTERNS: 'Bearer Token'
PatBearer ==
    Cat(<<LitI(<<"b", "e", "a", "r", "e", "r">>), Plus(WS),
          AtLeast(Cls(Alnum \cup {"_", "-", "."}), 20)>>)

\* SECRET_PATTERNS: 'GitHub Personal Access Token'
PatGithub ==
    Cat(<<Lit(<<"g", "h", "p", "_">>), Rep(Cls(Alnum), 36, 36)>>)

\* SECRET_PATTERNS: 'OpenAI API Key'
PatOpenAi ==
    Cat(<<Lit(<<"s", "k", "-">>), Rep(Cls(Alnum), 48, 48)>>)

\* lines 5-16
SECRET_PATTERNS ==
    <<<<PatApiKey, "API Key">>,
      <<PatPassword, "Password/Secret">>,
      <<PatToken, "Token">>,
      <<PatAwsAccessKey, "AWS Access Key">>,
      <<PatAwsSecretKey, "AWS Secret Key">>,
      <<PatPrivateKey, "Private Key">>,
      <<PatDbUrl, "Database Connection String">>,
      <<PatBearer, "Bearer Token">>,
      <<PatGithub, "GitHub Personal Access Token">>,
      <<PatOpenAi, "OpenAI API Key">>>>

REDACTED == <<"*", "*", "*", "R", "E", "D", "A", "C", "T", "E", "D", "*", "*", "*">>

\* A faulty variant of line 33: the slice is missing
mask_unsliced(matched_text) == matched_text \o REDACTED

\* line 33: matched_text[:10] + '***REDACTED***'
mask(matched_text) == Take(matched_text, 10) \o REDACTED

\* lines 29-42: the hits of one matcher on one line, one per match
HitsOfPattern(path, line_num, line, p) ==
    LET ms == finditer(SECRET_PATTERNS[p][1], line, 1)
    IN  [j \in 1..Len(ms) |->
            LET matched_text == SubSeq(line, ms[j][1], ms[j][2] - 1)
            IN  [matched_text |-> matched_text,
                 finding |->
                    [file        |-> path,
                     line        |-> line_num,
                     type        |-> SECRET_PATTERNS[p][2],
                     severity    |-> "HIGH",
                     matched     |-> mask(matched_text),
                     explanation |-> <<"Potential", SECRET_PATTERNS[p][2],
                                       "found.">>]]]

RECURSIVE HitsOfLine(_, _, _, _)
\* line 28: the matchers p, p+1, ... on one line
HitsOfLine(path, line_num, line, p) ==
    IF p > Len(SECRET_PATTERNS) THEN <<>>
    ELSE HitsOfPattern(path, line_num, line, p)
         \o HitsOfLine(path, line_num, line, p + 1)

RECURSIVE HitsOfLines(_, _, _)
\* line 27: the lines n, n+1, ... of one file
HitsOfLines(path, lines, n) ==
    IF n > Len(lines) THEN <<>>
    ELSE HitsOfLine(path, n, lines[n], 1) \o HitsOfLines(path, lines, n + 1)

RECURSIVE SecretHits(_, _)
\* lines 23-42: the hits of the files f, f+1, ..., in order
SecretHits(files, f) ==
    IF f > Len(files) THEN <<>>
    ELSE HitsOfLines(files[f].path,
                     split_lines(files[f].content, 1, <<>>), 1)
         \o SecretHits(files, f + 1)

\* the findings list the hits append to
FindingsOf(hits) == [k \in 1..Len(hits) |-> hits[k].finding]

\* lines 19-44
detect_secrets(files) == FindingsOf(SecretHits(files, 1))

\* ---- the file contents detect_secrets is run on ----
Fill(c, n) == [i \in 1..n |-> c]
\* a quoted value of n characters c after a key and a separator
Assigned(key, sep, q, c, n) == key \o sep \o <<q>> \o Fill(c, n) \o <<q>>
Around(n) == (IF n - SecretSlack < 0 THEN 0 ELSE n - SecretSlack)..(n + SecretSlack)

ApiKeyNames == {<<"a", "p", "i", "k", "e", "y">>,
                <<"A", "P", "I", "_", "K", "E", "Y">>,
                <<"a", "p", "i", "-", "k", "e", "y">>}
PasswordNames == {<<"p", "w", "d">>,
                  <<"P", "a", "s", "s", "w", "o", "r", "d">>,
                  <<"S", "E", "C", "R", "E", "T">>,
                  <<"p", "a", "s", "s", "w", "d">>}
TokenNames == {<<"t", "o", "k", "e", "n">>,
               <<"a", "u", "t", "h", "_", "t", "o", "k", "e", "n">>,
               <<"A", "c", "c", "e", "s", "s", "T", "o", "k", "e", "n">>}
AwsSecretNames == {<<"a", "w", "s", "_", "s", "e", "c", "r", "e", "t">>,
                   <<"s", "e", "c", "r", "e", "t", "-", "k", "e", "y">>}
Separators == {<<"=">>,
               <<" ", ":", " ">>}
PemHeaders == {<<"-", "-", "-", "-", "-", "B", "E", "G", "I", "N", " ", "P", "R", "I", "V", "A", "T", "E", " ", "K", "E", "Y", "-", "-", "-", "-", "-">>,
               <<"-", "-", "-", "-", "-", "B", "E", "G", "I", "N", " ", "R", "S", "A", " ", "P", "R", "I", "V", "A", "T", "E", " ", "K", "E", "Y", "-", "-", "-", "-", "-">>,
               <<"-", "-", "-", "-", "-", "B", "E", "G", "I", "N", " ", "R", "S", "A", " ", " ", "P", "R", "I", "V", "A", "T", "E", "	", "K", "E", "Y", "-", "-", "-", "-", "-">>,
               <<"-", "-", "-", "-", "-", "B", "E", "G", "I", "N", " ", "P", "U", "B", "L", "I", "C", " ", "K", "E", "Y", "-", "-", "-", "-", "-">>,
               <<"-", "-", "-", "-", "-", "B", "E", "G", "I", "N", "P", "R", "I", "V", "A", "T", "E", " ", "K", "E", "Y", "-", "-", "-", "-", "-">>}
DbUrls == {<<"r", "e", "d", "i", "s", ":", "/", "/", "u", ":", "p", "@">>,
           <<"M", "y", "s", "q", "l", ":", "/", "/", "u", "s", "e", "r", ":", "p", "w", "@", "h", "o", "s", "t", "/", "d", "b">>,
           <<"p", "o", "s", "t", "g", "r", "e", "s", ":", "/", "/", "a", ":", "b", "@", "c", ":", "d", "@", "e">>,
           <<"r", "e", "d", "i", "s", ":", "/", "/", ":", "@">>,
           <<"m", "o", "n", "g", "o", "d", "b", ":", "/", "/", "u", ":", "@">>,
           <<"r", "e", "d", "i", "s", ":", "/", "/", "u", ":", "p">>,
           <<"h", "t", "t", "p", ":", "/", "/", "u", ":", "p", "@", "h", "o", "s", "t">>}
BearerWords == {<<"b", "e", "a", "r", "e", "r", " ">>,
                <<"B", "e", "a", "r", "e", "r", "	", " ">>,
                <<"b", "e", "a", "r", "e", "r">>}
Prefixes == {<<>>,
             <<"x", " ", "=", " ">>}
Suffixes == {<<>>,
             <<" ", "#", " ", "*", "*", "*", "R", "E", "D", "A", "C", "T", "E", "D", "*", "*", "*">>}

\* text that holds a secret, or just misses holding one
SecretSamples ==
    {Assigned(k, s, q, "a", n) :
        k \in ApiKeyNames, s \in Separators, q \in {"\"", "'"}, n \in Around(16)}
    \cup {Assigned(k, s, "\"", c, n) :
        k \in PasswordNames, s \in Separators, c \in {"s", "*"}, n \in Around(8)}
    \cup {Assigned(k, <<"=">>, "'", c, n) :
        k \in TokenNames, c \in {"t", "."}, n \in Around(20)}
    \cup {k \o Fill(c, n) :
        k \in {<<"A", "K", "I", "A">>, <<"a", "k", "i", "a">>},
        c \in {"Z", "z", "7", "_"}, n \in Around(16)}
    \cup {Assigned(k, <<"=">>, "\"", "/", n) :
        k \in AwsSecretNames, n \in Around(40)}
    \cup PemHeaders
    \cup DbUrls
    \cup {b \o Fill(c, n) : b \in BearerWords, c \in {"x", "-"}, n \in Around(20)}
    \cup {<<"g", "h", "p", "_">> \o Fill("G", n) : n \in Around(36)}
    \cup {<<"s", "k", "-">> \o Fill("K", n) : n \in Around(48)}

\* one line, or two lines, of such text
SecretContents ==
    SecretSamples
    \cup {p \o s \o x : p \in Prefixes, s \in DbUrls \cup PemHeaders,
                         x \in Suffixes}
    \cup {a \o <<Newline>> \o b \o <<" ">> \o a :
             a \in DbUrls, b \in PemHeaders}

SecretFileSets ==
    {<<[path |-> "app.py", content |-> c, extension |-> ".py"]>> :
        c \in SecretContents}

InitSecretsIdle ==
    /\ sec_pc = "idle"
    /\ sec_files = <<>>
    /\ sec_findings = <<>>
    /\ sec_matched = <<>>

InitSecretVars ==
    /\ sec_pc = "call"
    /\ sec_files \in SecretFileSets
    /\ sec_findings = <<>>
    /\ sec_matched = <<>>

\* lines 19-44: detect_secrets(files)
DetectSecrets ==
    /\ sec_pc = "call"
    /\ LET hits == SecretHits(sec_files, 1)
       IN  /\ sec_findings' = FindingsOf(hits)
           /\ sec_matched' = [k \in 1..Len(hits) |-> hits[k].matched_text]
    /\ sec_pc' = "returned"
    /\ UNCHANGED sec_files
    /\ UNCHANGED notSecretVars

SecretsStep ==
    \/ DetectSecrets

\* ========================================================================
\* agents/auth_agent.py
\* ========================================================================
\* \w
WordChar == Cls(Alnum \cup {"_"})

\* (get|post|put|delete|patch); every matcher is used with re.IGNORECASE
RouteVerbs ==
    Alt(<<LitI(<<"g", "e", "t">>),
         LitI(<<"p", "o", "s", "t">>),
         LitI(<<"p", "u", "t">>),
         LitI(<<"d", "e", "l", "e", "t", "e">>),
         LitI(<<"p", "a", "t", "c", "h">>)>>)

\* line 7
PatRoutePython ==
    Cat(<<LitI(<<"@">>), Alt(<<LitI(<<"a", "p", "p">>), LitI(<<"r", "o", "u", "t", "e", "r">>)>>), LitI(<<".">>), RouteVerbs,
          Star(WS), LitI(<<"(">>), Star(WS), Quote, Star(NotCls({"\"", "'"})), Quote>>)

\* line 9
PatRouteJavaScript ==
    Cat(<<Alt(<<LitI(<<"a", "p", "p">>), LitI(<<"r", "o", "u", "t", "e", "r">>)>>), LitI(<<".">>), RouteVerbs,
          Star(WS), LitI(<<"(">>), Star(WS), Quote, Plus(NotCls({"\"", "'"})), Quote>>)

\* line 11
PatRouteTypeScript ==
    Cat(<<LitI(<<"@">>), RouteVerbs, Star(WS), LitI(<<"(">>), Star(WS), Opt(Quote),
          Star(NotCls({")"})), Opt(Quote), Star(WS), LitI(<<")">>)>>)

\* lines 5-12
ROUTE_PATTERNS ==
    <<<<PatRoutePython, "Python">>,
      <<PatRouteJavaScript, "JavaScript">>,
      <<PatRouteTypeScript, "TypeScript">>>>

\* lines 15-24
AUTH_PATTERNS ==
    <<Cat(<<LitI(<<"@">>),
            Alt(<<LitI(<<"r", "e", "q", "u", "i", "r", "e">>),
                 LitI(<<"l", "o", "g", "i", "n", "_", "r", "e", "q", "u", "i", "r", "e", "d">>),
                 LitI(<<"a", "u", "t", "h", "e", "n", "t", "i", "c", "a", "t", "e", "d">>),
                 LitI(<<"a", "u", "t", "h">>),
                 LitI(<<"j", "w", "t", "_", "r", "e", "q", "u", "i", "r", "e", "d">>),
                 LitI(<<"t", "o", "k", "e", "n", "_", "r", "e", "q", "u", "i", "r", "e", "d">>),
                 LitI(<<"p", "e", "r", "m", "i", "s", "s", "i", "o", "n">>),
                 LitI(<<"p", "r", "o", "t", "e", "c", "t", "e", "d">>)>>)>>),
      Cat(<<LitI(<<"@">>),
            Alt(<<Cat(<<LitI(<<"D", "e", "p", "e", "n", "d", "s">>), Star(WS), LitI(<<"(">>), Star(WS), Star(WordChar), LitI(<<"a", "u", "t", "h">>)>>),
                  Cat(<<LitI(<<"D", "e", "p", "e", "n", "d", "s">>), Star(WS), LitI(<<"(">>), Star(WS), Star(WordChar), LitI(<<"t", "o", "k", "e", "n">>)>>),
                  Cat(<<LitI(<<"D", "e", "p", "e", "n", "d", "s">>), Star(WS), LitI(<<"(">>), Star(WS), LitI(<<"g", "e", "t", "_", "c", "u", "r", "r", "e", "n", "t", "_", "u", "s", "e", "r">>)>>)>>)>>),
      Cat(<<Alt(<<LitI(<<"i", "s", "A", "u", "t", "h", "e", "n", "t", "i", "c", "a", "t", "e", "d">>),
                 LitI(<<"r", "e", "q", "u", "i", "r", "e", "A", "u", "t", "h">>),
                 LitI(<<"a", "u", "t", "h", "M", "i", "d", "d", "l", "e", "w", "a", "r", "e">>),
                 LitI(<<"v", "e", "r", "i", "f", "y", "T", "o", "k", "e", "n">>),
                 LitI(<<"a", "u", "t", "h", "e", "n", "t", "i", "c", "a", "t", "e">>)>>),
            Star(WS), Cls({",", ")"})>>),
      Alt(<<LitI(<<"p", "a", "s", "s", "p", "o", "r", "t", ".", "a", "u", "t", "h", "e", "n", "t", "i", "c", "a", "t", "e">>),
            LitI(<<"j", "w", "t", ".", "v", "e", "r", "i", "f", "y">>)>>),
      Cat(<<LitI(<<"@">>), Alt(<<LitI(<<"U", "s", "e", "G", "u", "a", "r", "d", "s">>), LitI(<<"A", "u", "t", "h", "G", "u", "a", "r", "d">>)>>)>>)>>

\* lines 27-30
FILE_LEVEL_AUTH_PATTERNS ==
    <<Cat(<<LitI(<<"r", "o", "u", "t", "e", "r", ".", "u", "s", "e">>), Star(WS), LitI(<<"(">>), Star(WS),
            Alt(<<LitI(<<"a", "u", "t", "h", "e", "n", "t", "i", "c", "a", "t", "e">>),
                 LitI(<<"a", "u", "t", "h", "M", "i", "d", "d", "l", "e", "w", "a", "r", "e">>),
                 LitI(<<"p", "r", "o", "t", "e", "c", "t">>)>>)>>),
      Cat(<<LitI(<<"a", "p", "p", ".", "u", "s", "e">>), Star(WS), LitI(<<"(">>), Star(WS),
            Alt(<<LitI(<<"a", "u", "t", "h", "e", "n", "t", "i", "c", "a", "t", "e">>),
                 LitI(<<"a", "u", "t", "h", "M", "i", "d", "d", "l", "e", "w", "a", "r", "e">>),
                 LitI(<<"p", "r", "o", "t", "e", "c", "t">>)>>)>>)>>

\* lines 33-35
SENSITIVE_OPS ==
    <<Alt(<<LitI(<<"d", "e", "l", "e", "t", "e">>),
           LitI(<<"r", "e", "m", "o", "v", "e">>),
           LitI(<<"d", "r", "o", "p">>),
           LitI(<<"u", "p", "d", "a", "t", "e">>),
           LitI(<<"c", "r", "e", "a", "t", "e">>),
           LitI(<<"i", "n", "s", "e", "r", "t">>),
           LitI(<<"m", "o", "d", "i", "f", "y">>),
           LitI(<<"a", "d", "m", "i", "n">>),
           LitI(<<"u", "s", "e", "r">>),
           LitI(<<"p", "a", "s", "s", "w", "o", "r", "d">>),
           LitI(<<"p", "a", "y", "m", "e", "n", "t">>),
           LitI(<<"c", "h", "e", "c", "k", "o", "u", "t">>)>>)>>

\* line 76: \.(post|put|delete|patch)
PatMutatingMethod ==
    Cat(<<LitI(<<".">>), Alt(<<LitI(<<"p", "o", "s", "t">>),
                   LitI(<<"p", "u", "t">>),
                   LitI(<<"d", "e", "l", "e", "t", "e">>),
                   LitI(<<"p", "a", "t", "c", "h">>)>>)>>)

\* any(re.search(pat, text, re.IGNORECASE) for pat in patterns)
any_search(patterns, text) ==
    \E p \in 1..Len(patterns) : search(patterns[p], text)

RECURSIVE search_span(_, _, _)
\* re.search(pattern, s): the first match from position i on, as
\* <<start, end>>, or <<>> when there is none
search_span(re, s, i) ==
    IF i > Len(s) + 1 THEN <<>>
    ELSE LET e == MatchEnd(re, s, i)
         IN  IF e = 0 THEN search_span(re, s, i + 1) ELSE <<i, e>>

\* lines 46-49 with only the router.use pattern of line 28
file_has_auth_router_only(content) ==
    search(FILE_LEVEL_AUTH_PATTERNS[1], content)

\* lines 46-49
file_has_auth(content) == any_search(FILE_LEVEL_AUTH_PATTERNS, content)

\* line 64 with a window of five lines after the route
context_end_wide(n, i) == IF n < i + 6 THEN n ELSE i + 6

\* line 63 and line 64, for the 0-based index i in a file of n lines
context_start(i) == IF i - 5 > 0 THEN i - 5 ELSE 0
context_end(n, i) == IF n < i + 5 THEN n ELSE i + 5

RECURSIVE join_lines(_, _, _)
\* '\n'.join(lines[from:to]) with 0-based from and to
join_lines(lines, from, to) ==
    IF from >= to THEN <<>>
    ELSE lines[from + 1]
         \o (IF from + 1 < to THEN <<Newline>> ELSE <<>>)
         \o join_lines(lines, from + 1, to)

\* line 65
context_of(lines, i) ==
    join_lines(lines, context_start(i), context_end(Len(lines), i))

\* lines 68-69
has_auth(context) == any_search(AUTH_PATTERNS, context)
\* lines 72-73
is_sensitive(line) == any_search(SENSITIVE_OPS, line)
\* lines 76-77
is_mutating(line) == search(PatMutatingMethod, line)

ExplainSensitive ==
    "This endpoint appears to lack authentication middleware. It performs sensitive operations that should require authentication."
ExplainMutating ==
    "This endpoint appears to lack authentication middleware. Mutating endpoints (POST/PUT/DELETE/PATCH) should typically require authentication."

\* lines 60-89: what the matcher p appends for the line of 0-based index i
AuthHitsOfPattern(path, lines, i, p) ==
    LET line == lines[i + 1]
        route_match == search_span(ROUTE_PATTERNS[p][1], line, 1)
    IN  IF route_match = <<>> THEN <<>>
        ELSE IF ~has_auth(context_of(lines, i))
                /\ (is_mutating(line) \/ is_sensitive(line))
        THEN <<[file        |-> path,
                line        |-> i + 1,
                type        |-> "Missing Authentication",
                severity    |-> IF is_sensitive(line) THEN "HIGH"
                                ELSE "MEDIUM",
                endpoint    |-> Take(SubSeq(line, route_match[1],
                                            route_match[2] - 1), 80),
                framework   |-> ROUTE_PATTERNS[p][2],
                explanation |-> IF is_sensitive(line) THEN ExplainSensitive
                                ELSE ExplainMutating]>>
        ELSE <<>>

RECURSIVE AuthHitsOfLine(_, _, _, _)
\* line 59: the matchers p, p+1, ... on the line of index i
AuthHitsOfLine(path, lines, i, p) ==
    IF p > Len(ROUTE_PATTERNS) THEN <<>>
    ELSE AuthHitsOfPattern(path, lines, i, p)
         \o AuthHitsOfLine(path, lines, i, p + 1)

RECURSIVE AuthHitsOfLines(_, _, _)
\* line 55: the lines of index i, i+1, ...
AuthHitsOfLines(path, lines, i) ==
    IF i >= Len(lines) THEN <<>>
    ELSE AuthHitsOfLine(path, lines, i, 1)
         \o AuthHitsOfLines(path, lines, i + 1)

RECURSIVE detect_missing_auth_from(_, _)
\* lines 42-89: the files f, f+1, ...
detect_missing_auth_from(files, f) ==
    IF f > Len(files) THEN <<>>
    ELSE (IF file_has_auth(files[f].content) THEN <<>>
          ELSE AuthHitsOfLines(files[f].path,
                               split_lines(files[f].content, 1, <<>>), 0))
         \o detect_missing_auth_from(files, f + 1)

\* lines 38-91
detect_missing_auth(files) == detect_missing_auth_from(files, 1)

\* ---- the files detect_missing_auth is run on ----
\* A line of source text with what it declares: the verb the route is bound
\* to, the matcher family that recognises it ("none": not a route) and
\* whether the route declaration itself holds a sensitive keyword.
RouteLine(text, verb, family, sensitive_decl) ==
    [text |-> text, verb |-> verb, family |-> family,
     sensitive_decl |-> sensitive_decl]

RouteLines ==
    {RouteLine(<<"@", "a", "p", "p", ".", "p", "o", "s", "t", "(", "\"", "/", "i", "t", "e", "m", "s", "\"", ")">>,
               "post", "decorator", FALSE),
     RouteLine(<<"@", "a", "p", "p", ".", "p", "o", "s", "t", "(", "\"", "/", "a", "d", "m", "i", "n", "/", "d", "e", "l", "e", "t", "e", "_", "u", "s", "e", "r", "\"", ")">>,
               "post", "decorator", TRUE),
     RouteLine(<<"@", "r", "o", "u", "t", "e", "r", ".", "p", "u", "t", "(", "\"", "/", "i", "t", "e", "m", "s", "\"", ")">>,
               "put", "decorator", FALSE),
     RouteLine(<<"@", "A", "p", "p", ".", "P", "a", "t", "c", "h", "(", "\"", "/", "i", "t", "e", "m", "s", "\"", ")">>,
               "patch", "decorator", FALSE),
     RouteLine(<<"r", "o", "u", "t", "e", "r", ".", "p", "o", "s", "t", "(", "'", "/", "i", "t", "e", "m", "s", "'", ",", " ", "h", ")">>,
               "post", "chain", FALSE),
     RouteLine(<<"a", "p", "p", ".", "p", "u", "t", "(", "'", "/", "i", "t", "e", "m", "s", "'", ",", " ", "h", ")">>,
               "put", "chain", FALSE),
     RouteLine(<<"r", "o", "u", "t", "e", "r", ".", "d", "e", "l", "e", "t", "e", "(", "'", "/", "i", "t", "e", "m", "s", "'", ",", " ", "h", ")">>,
               "delete", "chain", TRUE),
     RouteLine(<<"a", "p", "p", ".", "p", "a", "t", "c", "h", "(", " ", "'", "/", "i", "t", "e", "m", "s", "'", ",", " ", "h", ")">>,
               "patch", "chain", FALSE),
     RouteLine(<<"@", "P", "o", "s", "t", "(", "'", "/", "i", "t", "e", "m", "s", "'", ")">>,
               "post", "annotation", FALSE),
     RouteLine(<<"@", "P", "u", "t", "(", ")">>,
               "put", "annotation", FALSE),
     RouteLine(<<"@", "P", "a", "t", "c", "h", "(", "'", ":", "i", "d", "'", ")">>,
               "patch", "annotation", FALSE),
     RouteLine(<<"@", "D", "e", "l", "e", "t", "e", "(", "'", ":", "i", "d", "'", ")">>,
               "delete", "annotation", TRUE),
     RouteLine(<<"@", "a", "p", "p", ".", "g", "e", "t", "(", "\"", "/", "i", "t", "e", "m", "s", "\"", ")">>,
               "get", "decorator", FALSE),
     RouteLine(<<"@", "a", "p", "p", ".", "g", "e", "t", "(", "\"", "/", "u", "s", "e", "r", "s", "\"", ")">>,
               "get", "decorator", TRUE),
     RouteLine(<<"r", "o", "u", "t", "e", "r", ".", "g", "e", "t", "(", "'", "/", "i", "t", "e", "m", "s", "'", ",", " ", "h", ")">>,
               "get", "chain", FALSE),
     RouteLine(<<"r", "o", "u", "t", "e", "r", ".", "g", "e", "t", "(", "'", "/", "i", "t", "e", "m", "s", "'", ",", " ", "u", "p", "d", "a", "t", "e", "I", "t", "e", "m", "s", ")">>,
               "get", "chain", FALSE),
     RouteLine(<<"a", "p", "p", ".", "g", "e", "t", "(", "'", "/", "i", "t", "e", "m", "s", "'", ",", " ", "(", "q", ",", " ", "r", ")", " ", "=", ">", " ", "a", "p", "i", ".", "p", "o", "s", "t", "(", "q", ",", " ", "r", ")", ")">>,
               "get", "chain", FALSE),
     RouteLine(<<"@", "G", "e", "t", "(", "'", "/", "i", "t", "e", "m", "s", "'", ")">>,
               "get", "annotation", FALSE),
     RouteLine(<<"@", "G", "e", "t", "(", "'", "/", "i", "t", "e", "m", "s", "'", ")", " ", "/", "/", " ", "s", "e", "e", " ", ".", "p", "u", "t">>,
               "get", "annotation", FALSE),
     RouteLine(<<"a", "p", "p", ".", "l", "i", "s", "t", "e", "n", "(", "3", "0", "0", "0", ")">>,
               "none", "none", FALSE)}

\* src/test_samples/missing_auth_sample.py lines 12-15
SampleRoute ==
    RouteLine(<<"@", "a", "p", "p", ".", "p", "o", "s", "t", "(", "\"", "/", "a", "d", "m", "i", "n", "/", "d", "e", "l", "e", "t", "e", "_", "u", "s", "e", "r", "\"", ")">>,
              "post", "decorator", TRUE)
SampleBody ==
    <<<<"d", "e", "f", " ", "d", "e", "l", "e", "t", "e", "_", "u", "s", "e", "r", "(", "u", "s", "e", "r", "_", "i", "d", ":", " ", "i", "n", "t", ")", ":">>,
      <<" ", " ", " ", " ", "#", " ", "D", "a", "n", "g", "e", "r", "o", "u", "s", ":", " ", "N", "o", " ", "a", "u", "t", "h", " ", "c", "h", "e", "c", "k">>,
      <<" ", " ", " ", " ", "r", "e", "t", "u", "r", "n", " ", "{", "\"", "d", "e", "l", "e", "t", "e", "d", "\"", ":", " ", "u", "s", "e", "r", "_", "i", "d", "}">>>>

\* a route of one matcher family, and one of two, for the window cases
WindowRoutes ==
    {RouteLine(<<"r", "o", "u", "t", "e", "r", ".", "p", "o", "s", "t", "(", "'", "/", "i", "t", "e", "m", "s", "'", ",", " ", "h", ")">>,
               "post", "chain", FALSE),
     RouteLine(<<"@", "r", "o", "u", "t", "e", "r", ".", "p", "u", "t", "(", "\"", "/", "i", "t", "e", "m", "s", "\"", ")">>,
               "put", "decorator", FALSE)}

\* lines that hold an auth pattern, and one that does not
OtherLine(text, auth) == [text |-> text, auth |-> auth]
AuthLines ==
    {OtherLine(<<"@", "l", "o", "g", "i", "n", "_", "r", "e", "q", "u", "i", "r", "e", "d">>, TRUE),
     OtherLine(<<" ", " ", "x", "(", "v", "e", "r", "i", "f", "y", "T", "o", "k", "e", "n", ",", " ", "h", ")">>, TRUE),
     OtherLine(<<"@", "c", "a", "c", "h", "e">>, FALSE)}

\* lines that hold a file-level auth-installation statement, and one
\* that does not
FileLevelLines ==
    {OtherLine(<<"r", "o", "u", "t", "e", "r", ".", "u", "s", "e", "(", "a", "u", "t", "h", "e", "n", "t", "i", "c", "a", "t", "e", ")">>, TRUE),
     OtherLine(<<"a", "p", "p", ".", "u", "s", "e", "(", " ", "p", "r", "o", "t", "e", "c", "t", ")">>, TRUE),
     OtherLine(<<"/", "/", " ", "A", "p", "p", ".", "U", "s", "e", "(", "a", "u", "t", "h", "M", "i", "d", "d", "l", "e", "w", "a", "r", "e">>, TRUE),
     OtherLine(<<"r", "o", "u", "t", "e", "r", ".", "u", "s", "e", "(", "c", "o", "r", "s", "(", ")", ")">>, FALSE)}

NoRoute == RouteLine(<<>>, "none", "none", FALSE)
NoOther == OtherLine(<<>>, FALSE)

\* the half-width of the context window plus the slack
WindowReach == 5 + WindowSlack

\* The cases: a route line alone; the sample route with its handler body;
\* a route at line index i and another line at index j of a file of n
\* lines; a file with a route at index i and a file-level statement at
\* index j, listed as file number `at` next to an unguarded file.
AuthCase(kind, route, other, i, j, n, at) ==
    [kind |-> kind, route |-> route, other |-> other, i |-> i, j |-> j,
     n |-> n, at |-> at]
AuthCases ==
    {AuthCase("line", r, NoOther, 0, 0, 1, 1) : r \in RouteLines}
    \cup {AuthCase("sample", SampleRoute, NoOther, 0, 0, 4, 1)}
    \cup {AuthCase("window", r, a, WindowReach, j, 2 * WindowReach + 1, 1) :
            r \in WindowRoutes, a \in AuthLines,
            j \in (0..(2 * WindowReach)) \ {WindowReach}}
    \cup {AuthCase("window", r, a, 0, j, WindowReach + 1, 1) :
            r \in WindowRoutes, a \in AuthLines, j \in 1..WindowReach}
    \cup {AuthCase("window", r, a, WindowReach, j, WindowReach + 1, 1) :
            r \in WindowRoutes, a \in AuthLines, j \in 0..(WindowReach - 1)}
    \cup {AuthCase("file_level", r, a, i, 1 - i, 2, at) :
            r \in RouteLines, a \in FileLevelLines, i \in {0, 1},
            at \in {1, 2}}

RECURSIVE Layout(_, _, _, _, _, _)
\* the text of lines k..n-1 (0-based): text_i at index i, text_j at index
\* j, every other line empty
Layout(k, n, i, text_i, j, text_j) ==
    IF k >= n THEN <<>>
    ELSE (IF k = i THEN text_i ELSE IF k = j THEN text_j ELSE <<>>)
         \o (IF k + 1 < n THEN <<Newline>> ELSE <<>>)
         \o Layout(k + 1, n, i, text_i, j, text_j)

SourceFile(path, content, ext) ==
    [path |-> path, content |-> content, extension |-> ext]

OpenFile == SourceFile("open.js", <<"r", "o", "u", "t", "e", "r", ".", "p", "o", "s", "t", "(", "'", "/", "i", "t", "e", "m", "s", "'", ",", " ", "h", ")">>, ".js")

\* the `files` argument of a case
FilesOfCase(c) ==
    CASE c.kind = "line" ->
            <<SourceFile("routes.py", c.route.text, ".py")>>
      [] c.kind = "sample" ->
            <<SourceFile("routes.py",
                         c.route.text \o <<Newline>> \o SampleBody[1]
                         \o <<Newline>> \o SampleBody[2]
                         \o <<Newline>> \o SampleBody[3], ".py")>>
      [] c.kind = "window" ->
            <<SourceFile("routes.py",
                         Layout(0, c.n, c.i, c.route.text, c.j, c.other.text),
                         ".py")>>
      [] c.kind = "file_level" ->
            LET guarded ==
                    SourceFile("guarded.js",
                               Layout(0, c.n, c.i, c.route.text, c.j,
                                      c.other.text), ".js")
            IN  IF c.at = 1 THEN <<guarded, OpenFile>>
                ELSE <<OpenFile, guarded>>

InitAuthIdle ==
    /\ auth_pc = "idle"
    /\ auth_case = AuthCase("none", NoRoute, NoOther, 0, 0, 0, 0)
    /\ auth_files = <<>>
    /\ auth_findings = <<>>

InitAuthVars ==
    /\ auth_pc = "call"
    /\ auth_case \in AuthCases
    /\ auth_files = FilesOfCase(auth_case)
    /\ auth_findings = <<>>

\* lines 38-91: detect_missing_auth(files)
DetectMissingAuth ==
    /\ auth_pc = "call"
    /\ auth_findings' = detect_missing_auth(auth_files)
    /\ auth_pc' = "returned"
    /\ UNCHANGED <<auth_case, auth_files>>
    /\ UNCHANGED notAuthVars

AuthStep ==
    \/ DetectMissingAuth

\* ========================================================================
\* agents/sql_agent.py
\* ========================================================================
\* the grave accent, written as a name
Backtick == "GRAVE"

\* `.`: every character but the newline
Dot == Cls(LineChars \cup {Backtick})
\* (SELECT|INSERT|UPDATE|DELETE|DROP|CREATE) and the same without CREATE;
\* every matcher starts with (?i)
SqlVerbs6 ==
    Alt(<<LitI(<<"S", "E", "L", "E", "C", "T">>), LitI(<<"I", "N", "S", "E", "R", "T">>), LitI(<<"U", "P", "D", "A", "T", "E">>), LitI(<<"D", "E", "L", "E", "T", "E">>), LitI(<<"D", "R", "O", "P">>), LitI(<<"C", "R", "E", "A", "T", "E">>)>>)
SqlVerbs5 ==
    Alt(<<LitI(<<"S", "E", "L", "E", "C", "T">>), LitI(<<"I", "N", "S", "E", "R", "T">>), LitI(<<"U", "P", "D", "A", "T", "E">>), LitI(<<"D", "E", "L", "E", "T", "E">>), LitI(<<"D", "R", "O", "P">>)>>)

\* line 7: String concatenation in SQL query
PatSqlConcat ==
    Cat(<<SqlVerbs6, Plus(WS), Star(Dot), LitI(<<"+">>), Star(WS),
          ClsI(Lowers \cup {"_"}), Star(ClsI(Lowers \cup Digits \cup {"_"}))>>)

\* line 11: f-string interpolation in SQL query
PatSqlFString ==
    Cat(<<LitI(<<"f">>), Quote, Star(Dot), SqlVerbs5, Plus(WS), Star(Dot), LitI(<<"{">>),
          Plus(Cls((LineChars \cup {Backtick, Newline}) \ {"}"})), LitI(<<"}">>), Star(Dot),
          Quote>>)

\* line 15: .format() in SQL query
PatSqlFormat ==
    Cat(<<Quote, Star(Dot), SqlVerbs5, Plus(WS), Star(Dot), Quote,
          LitI(<<".", "f", "o", "r", "m", "a", "t">>),
          Star(WS), LitI(<<"(">>)>>)

\* line 19: % formatting in SQL query
PatSqlPercent ==
    Cat(<<Quote, Star(Dot), SqlVerbs5, Plus(WS), Star(Dot), LitI(<<"%", "s">>),
          Star(Dot), Quote, Star(Dot), LitI(<<"%">>)>>)

\* line 23: String concatenation in execute()
PatSqlExecuteConcat ==
    Cat(<<LitI(<<".", "e", "x", "e", "c", "u", "t", "e">>),
          Star(WS), LitI(<<"(">>), Star(WS), Quote, Star(Dot), LitI(<<"+">>)>>)

\* line 27: f-string in execute()
PatSqlExecuteFString ==
    Cat(<<LitI(<<".", "e", "x", "e", "c", "u", "t", "e">>),
          Star(WS), LitI(<<"(">>), Star(WS), LitI(<<"f">>), Quote>>)

\* line 31: Template literal with variable in query()
PatSqlQueryTemplate ==
    Cat(<<LitI(<<".", "q", "u", "e", "r", "y">>), Star(WS), LitI(<<"(">>), Star(WS),
          Quote, Star(Dot), LitI(<<"$", "{">>)>>)

\* line 35: Template literal interpolation in raw query
PatSqlRawTemplate ==
    Cat(<<Alt(<<LitI(<<"r", "a", "w">>), LitI(<<"q", "u", "e", "r", "y">>)>>), Star(WS), LitI(<<"(">>), Star(WS),
          LitI(<<Backtick>>), Star(Dot), LitI(<<"$", "{">>)>>)

\* lines 5-37: the matchers with the vulnerability each names
SQL_PATTERNS ==
    <<<<PatSqlConcat, "String concatenation in SQL query">>,
      <<PatSqlFString, "f-string interpolation in SQL query">>,
      <<PatSqlFormat, ".format() in SQL query">>,
      <<PatSqlPercent, "% formatting in SQL query">>,
      <<PatSqlExecuteConcat, "String concatenation in execute()">>,
      <<PatSqlExecuteFString, "f-string in execute()">>,
      <<PatSqlQueryTemplate, "Template literal with variable in query()">>,
      <<PatSqlRawTemplate, "Template literal interpolation in raw query">>>>

RECURSIVE lstrip(_), rstrip(_)
\* str.strip() for the white space a line of the samples holds
lstrip(s) == IF s # <<>> /\ Head(s) \in Spaces THEN lstrip(Tail(s)) ELSE s
rstrip(s) ==
    IF s # <<>> /\ s[Len(s)] \in Spaces
    THEN rstrip(SubSeq(s, 1, Len(s) - 1)) ELSE s
strip(s) == rstrip(lstrip(s))

\* str.startswith
startswith(s, prefix) ==
    Len(s) >= Len(prefix) /\ SubSeq(s, 1, Len(prefix)) = prefix

\* A faulty variant of lines 49-51: the line is not stripped before the
\* test
is_comment_line_unstripped(line) ==
    \/ startswith(line, <<"#">>)
    \/ startswith(line, <<"/", "/">>)
    \/ startswith(line, <<"*">>)

\* lines 49-51: is the line skipped as a comment?
is_comment_line(line) ==
    LET stripped == strip(line)
    IN  \/ startswith(stripped, <<"#">>)
        \/ startswith(stripped, <<"/", "/">>)
        \/ startswith(stripped, <<"*">>)

\* lines 53-62: what the matcher p appends for the line of number line_num
SqlHitsOfPattern(path, line_num, line, p) ==
    IF search(SQL_PATTERNS[p][1], line)
    THEN <<[file          |-> path,
            line          |-> line_num,
            type          |-> "SQL Injection",
            severity      |-> "CRITICAL",
            code_snippet  |-> Take(strip(line), 100),
            vulnerability |-> SQL_PATTERNS[p][2],
            explanation   |-> SQL_PATTERNS[p][2]
                              \o " detected. Use parameterized queries or prepared statements instead of string interpolation to prevent SQL injection attacks."]>>
    ELSE <<>>

RECURSIVE SqlHitsOfLine(_, _, _, _)
\* lines 53-62: the matchers p, p+1, ... on one line
SqlHitsOfLine(path, line_num, line, p) ==
    IF p > Len(SQL_PATTERNS) THEN <<>>
    ELSE SqlHitsOfPattern(path, line_num, line, p)
         \o SqlHitsOfLine(path, line_num, line, p + 1)

RECURSIVE SqlHitsOfLines(_, _, _)
\* lines 47-62: the lines of number line_num, line_num + 1, ...
SqlHitsOfLines(path, lines, line_num) ==
    IF line_num > Len(lines) THEN <<>>
    ELSE (IF is_comment_line(lines[line_num]) THEN <<>>
          ELSE SqlHitsOfLine(path, line_num, lines[line_num], 1))
         \o SqlHitsOfLines(path, lines, line_num + 1)

RECURSIVE detect_sql_injection_from(_, _)
\* lines 43-62: the files f, f+1, ...
detect_sql_injection_from(files, f) ==
    IF f > Len(files) THEN <<>>
    ELSE SqlHitsOfLines(files[f].path,
                        split_lines(files[f].content, 1, <<>>), 1)
         \o detect_sql_injection_from(files, f + 1)

\* lines 40-66
detect_sql_injection(files) == detect_sql_injection_from(files, 1)

\* ---- the files detect_sql_injection is run on ----
\* A line of source text with what Python says of it: whether its
\* stripped form starts with a comment marker, and the numbers of the
\* matchers of SQL_PATTERNS that re.search finds in it.
SqlLine(text, comment, matchers) ==
    [text |-> text, comment |-> comment, matchers |-> matchers]

SqlLines ==
    {SqlLine(<<" ", " ", " ", " ", "q", "u", "e", "r", "y", " ", "=", " ", "\"", "S", "E", "L", "E", "C", "T", " ", "*", " ", "F", "R", "O", "M", " ", "u", "s", "e", "r", "s", " ", "W", "H", "E", "R", "E", " ", "i", "d", " ", "=", " ", "\"", " ", "+", " ", "u", "s", "e", "r", "_", "i", "d">>,
             FALSE, {1}),
     SqlLine(<<" ", " ", " ", " ", "q", "u", "e", "r", "y", " ", "=", " ", "f", "\"", "S", "E", "L", "E", "C", "T", " ", "*", " ", "F", "R", "O", "M", " ", "t", " ", "W", "H", "E", "R", "E", " ", "n", "a", "m", "e", " ", "L", "I", "K", "E", " ", "'", "%", "{", "t", "e", "r", "m", "}", "%", "'", "\"">>,
             FALSE, {2}),
     SqlLine(<<"q", " ", "=", " ", "\"", "S", "E", "L", "E", "C", "T", " ", "*", " ", "F", "R", "O", "M", " ", "t", " ", "W", "H", "E", "R", "E", " ", "i", "d", " ", "=", " ", "{", "}", "\"", ".", "f", "o", "r", "m", "a", "t", "(", "u", "i", "d", ")">>,
             FALSE, {3}),
     SqlLine(<<"q", " ", "=", " ", "\"", "s", "e", "l", "e", "c", "t", " ", "*", " ", "f", "r", "o", "m", " ", "t", " ", "w", "h", "e", "r", "e", " ", "i", "d", " ", "=", " ", "%", "s", "\"", " ", "%", " ", "u", "i", "d">>,
             FALSE, {4}),
     SqlLine(<<"c", "u", "r", ".", "e", "x", "e", "c", "u", "t", "e", "(", "\"", "S", "E", "L", "E", "C", "T", " ", "*", " ", "F", "R", "O", "M", " ", "t", " ", "W", "H", "E", "R", "E", " ", "i", "d", " ", "=", " ", "\"", " ", "+", " ", "u", "i", "d", ")">>,
             FALSE, {1, 5}),
     SqlLine(<<"c", "u", "r", ".", "e", "x", "e", "c", "u", "t", "e", "(", "f", "\"", "D", "E", "L", "E", "T", "E", " ", "F", "R", "O", "M", " ", "t", " ", "W", "H", "E", "R", "E", " ", "i", "d", " ", "=", " ", "{", "u", "i", "d", "}", "\"", ")">>,
             FALSE, {2, 6}),
     SqlLine(<<"d", "b", ".", "q", "u", "e", "r", "y", "(", "\"", "S", "E", "L", "E", "C", "T", " ", "*", " ", "F", "R", "O", "M", " ", "t", " ", "W", "H", "E", "R", "E", " ", "i", "d", " ", "=", " ", "$", "{", "i", "d", "}", "\"", ")">>,
             FALSE, {7}),
     SqlLine(<<"d", "b", ".", "r", "a", "w", "(", Backtick, "U", "P", "D", "A", "T", "E", " ", "t", " ", "S", "E", "T", " ", "a", " ", "=", " ", "$", "{", "a", "}", Backtick, ")">>,
             FALSE, {8}),
     SqlLine(<<"c", "u", "r", ".", "e", "x", "e", "c", "u", "t", "e", "(", "\"", "I", "N", "S", "E", "R", "T", " ", "I", "N", "T", "O", " ", "t", " ", "V", "A", "L", "U", "E", "S", " ", "(", "%", "s", ")", "\"", " ", "%", " ", "v", " ", "+", " ", "w", ")">>,
             FALSE, {1, 4, 5}),
     SqlLine(<<" ", " ", " ", " ", "#", " ", "q", "u", "e", "r", "y", " ", "=", " ", "\"", "S", "E", "L", "E", "C", "T", " ", "*", " ", "F", "R", "O", "M", " ", "u", "s", "e", "r", "s", " ", "W", "H", "E", "R", "E", " ", "i", "d", " ", "=", " ", "\"", " ", "+", " ", "u", "s", "e", "r", "_", "i", "d">>,
             TRUE, {1}),
     SqlLine(<<"/", "/", " ", "d", "b", ".", "q", "u", "e", "r", "y", "(", "\"", "S", "E", "L", "E", "C", "T", " ", "*", " ", "F", "R", "O", "M", " ", "t", " ", "W", "H", "E", "R", "E", " ", "i", "d", " ", "=", " ", "$", "{", "i", "d", "}", "\"", ")">>,
             TRUE, {7}),
     SqlLine(<<" ", " ", "*", " ", "c", "u", "r", ".", "e", "x", "e", "c", "u", "t", "e", "(", "\"", "S", "E", "L", "E", "C", "T", " ", "\"", " ", "+", " ", "a", ")">>,
             TRUE, {1, 5}),
     SqlLine(<<"\t", "#", "c", "u", "r", ".", "e", "x", "e", "c", "u", "t", "e", "(", "f", "\"", "x", "\"", ")">>,
             TRUE, {6}),
     SqlLine(<<"*", "p", " ", "=", " ", "\"", "d", "r", "o", "p", " ", "\"", " ", "+", " ", "a">>,
             TRUE, {1}),
     SqlLine(<<"x", " ", "=", " ", "1", " ", " ", "#", " ", "\"", "S", "E", "L", "E", "C", "T", " ", "a", " ", "F", "R", "O", "M", " ", "t", " ", "\"", " ", "+", " ", "b">>,
             FALSE, {1}),
     SqlLine(<<"/", "*", " ", "S", "E", "L", "E", "C", "T", " ", "x", " ", "+", " ", "y", " ", "*", "/">>,
             FALSE, {1}),
     SqlLine(<<"-", "-", " ", "S", "E", "L", "E", "C", "T", " ", "a", " ", "+", " ", "b">>,
             FALSE, {1}),
     SqlLine(<<" ", " ", " ", " ", "c", "u", "r", "s", "o", "r", ".", "e", "x", "e", "c", "u", "t", "e", "(", "q", "u", "e", "r", "y", ")">>,
             FALSE, {}),
     SqlLine(<<"t", "o", "t", "a", "l", " ", "=", " ", "p", "r", "i", "c", "e", " ", "+", " ", "t", "a", "x">>,
             FALSE, {}),
     SqlLine(<<>>,
             FALSE, {})}

\* test_samples/sql_injection_sample.py lines 8-15
SqlSample ==
    <<<<"d", "e", "f", " ", "g", "e", "t", "_", "u", "s", "e", "r", "(", ")", ":">>,
      <<" ", " ", " ", " ", "u", "s", "e", "r", "_", "i", "d", " ", "=", " ", "r", "e", "q", "u", "e", "s", "t", ".", "a", "r", "g", "s", ".", "g", "e", "t", "(", "'", "i", "d", "'", ")">>,
      <<" ", " ", " ", " ", "#", " ", "S", "Q", "L", " ", "I", "n", "j", "e", "c", "t", "i", "o", "n", " ", "v", "u", "l", "n", "e", "r", "a", "b", "i", "l", "i", "t", "y", " ", "-", " ", "s", "t", "r", "i", "n", "g", " ", "c", "o", "n", "c", "a", "t", "e", "n", "a", "t", "i", "o", "n">>,
      <<" ", " ", " ", " ", "q", "u", "e", "r", "y", " ", "=", " ", "\"", "S", "E", "L", "E", "C", "T", " ", "*", " ", "F", "R", "O", "M", " ", "u", "s", "e", "r", "s", " ", "W", "H", "E", "R", "E", " ", "i", "d", " ", "=", " ", "\"", " ", "+", " ", "u", "s", "e", "r", "_", "i", "d">>,
      <<" ", " ", " ", " ", "c", "o", "n", "n", " ", "=", " ", "s", "q", "l", "i", "t", "e", "3", ".", "c", "o", "n", "n", "e", "c", "t", "(", "'", "d", "b", ".", "s", "q", "l", "i", "t", "e", "'", ")">>,
      <<" ", " ", " ", " ", "c", "u", "r", "s", "o", "r", " ", "=", " ", "c", "o", "n", "n", ".", "c", "u", "r", "s", "o", "r", "(", ")">>,
      <<" ", " ", " ", " ", "c", "u", "r", "s", "o", "r", ".", "e", "x", "e", "c", "u", "t", "e", "(", "q", "u", "e", "r", "y", ")">>,
      <<" ", " ", " ", " ", "r", "e", "t", "u", "r", "n", " ", "s", "t", "r", "(", "c", "u", "r", "s", "o", "r", ".", "f", "e", "t", "c", "h", "a", "l", "l", "(", ")", ")">>>>

NoSqlLine == SqlLine(<<>>, FALSE, {})

\* The cases: a file of one line; a file of two lines; the sample file.
SqlCase(kind, first, second) ==
    [kind |-> kind, first |-> first, second |-> second]
SqlCases ==
    {SqlCase("line", a, NoSqlLine) : a \in SqlLines}
    \cup {SqlCase("pair", a, b) : a, b \in SqlLines}
    \cup {SqlCase("sample", NoSqlLine, NoSqlLine)}

RECURSIVE join_newline(_, _)
\* '\n'.join(lines[k..])
join_newline(lines, k) ==
    IF k > Len(lines) THEN <<>>
    ELSE lines[k] \o (IF k < Len(lines) THEN <<Newline>> ELSE <<>>)
         \o join_newline(lines, k + 1)

\* the lines of the file of a case
LinesOfSqlCase(c) ==
    CASE c.kind = "line"   -> <<c.first.text>>
      [] c.kind = "pair"   -> <<c.first.text, c.second.text>>
      [] c.kind = "sample" -> SqlSample
      [] OTHER             -> <<>>

SqlFilesOfCase(c) ==
    <<SourceFile("app.py", join_newline(LinesOfSqlCase(c), 1), ".py")>>

InitSqlIdle ==
    /\ sql_pc = "idle"
    /\ sql_case = SqlCase("none", NoSqlLine, NoSqlLine)
    /\ sql_files = <<>>
    /\ sql_findings = <<>>

InitSqlVars ==
    /\ sql_pc = "call"
    /\ sql_case \in SqlCases
    /\ sql_files = SqlFilesOfCase(sql_case)
    /\ sql_findings = <<>>

\* lines 40-66: detect_sql_injection(files)
DetectSqlInjection ==
    /\ sql_pc = "call"
    /\ sql_findings' = detect_sql_injection(sql_files)
    /\ sql_pc' = "returned"
    /\ UNCHANGED <<sql_case, sql_files>>
    /\ UNCHANGED notSqlVars

SqlStep ==
    \/ DetectSqlInjection

\* ========================================================================
\* graph_workflow.py
\* ========================================================================
\* lines 89-95: the state the graph is invoked with
initial_state(files) ==
    [files    |-> files,
     findings |-> [c \in Categories |-> <<>>]]

\* lines 21-25; `returned` is what detect_secrets gives for state["files"]
secrets_node(state, returned) ==
    [state EXCEPT !.findings["secrets_detected"] = returned]

\* lines 28-32
sql_node(state, returned) ==
    [state EXCEPT !.findings["sql_injection"] = returned]

\* lines 35-39
auth_node(state, returned) ==
    [state EXCEPT !.findings["missing_auth"] = returned]

\* line 45: sum(len(f) for f in state["findings"].values())
RECURSIVE sum_of_lengths(_, _)
sum_of_lengths(findings, keys) ==
    IF keys = {} THEN 0
    ELSE LET k == CHOOSE x \in keys : TRUE
         IN  Len(findings[k]) + sum_of_lengths(findings, keys \ {k})

\* lines 47-49: len(state["findings"].get(key, []))
count_of(findings, key) ==
    IF key \in DOMAIN findings THEN Len(findings[key]) ELSE 0

\* A faulty variant of line 45: the total leaves out the category stored
\* last
aggregator_node_without_last(state) ==
    LET f == state.findings
        summary ==
            [total_findings |-> sum_of_lengths(f, DOMAIN f \ {"missing_auth"}),
             secrets_count  |-> count_of(f, "secrets_detected"),
             sql_count      |-> count_of(f, "sql_injection"),
             auth_count     |-> count_of(f, "missing_auth")]
    IN  [state EXCEPT !.findings =
            [k \in DOMAIN f \cup {"_summary"} |->
                IF k = "_summary" THEN summary ELSE f[k]]]

\* lines 42-52: the total is taken before the _summary entry is stored
aggregator_node(state) ==
    LET f == state.findings
        summary ==
            [total_findings |-> sum_of_lengths(f, DOMAIN f),
             secrets_count  |-> count_of(f, "secrets_detected"),
             sql_count      |-> count_of(f, "sql_injection"),
             auth_count     |-> count_of(f, "missing_auth")]
    IN  [state EXCEPT !.findings =
            [k \in DOMAIN f \cup {"_summary"} |->
                IF k = "_summary" THEN summary ELSE f[k]]]

InitGraphIdle ==
    /\ g_pc = "idle"
    /\ g_state = NoResult
    /\ g_result = NoResult

\* lines 77-98: the graph is compiled and invoked on the files the
\* orchestrator is called with; the entry point is secrets_agent
InitGraphVars ==
    /\ g_pc = "secrets_agent"
    /\ g_state = initial_state(a_files)
    /\ g_result = NoResult

\* lines 21-25 and the edge of line 67; an exception of the detector
\* leaves graph.invoke and run_security_graph
SecretsNode ==
    /\ g_pc = "secrets_agent"
    /\ IF "secrets_detected" \in a_faulty
       THEN /\ g_pc' = "raised"
            /\ g_state' = g_state
       ELSE /\ g_state' = secrets_node(g_state, a_returns["secrets_detected"])
            /\ g_pc' = "sql_agent"
    /\ UNCHANGED g_result
    /\ UNCHANGED notGraphVars

\* lines 28-32 and the edge of line 68
SqlNode ==
    /\ g_pc = "sql_agent"
    /\ IF "sql_injection" \in a_faulty
       THEN /\ g_pc' = "raised"
            /\ g_state' = g_state
       ELSE /\ g_state' = sql_node(g_state, a_returns["sql_injection"])
            /\ g_pc' = "auth_agent"
    /\ UNCHANGED g_result
    /\ UNCHANGED notGraphVars

\* lines 35-39 and the edge of line 69
AuthNode ==
    /\ g_pc = "auth_agent"
    /\ IF "missing_auth" \in a_faulty
       THEN /\ g_pc' = "raised"
            /\ g_state' = g_state
       ELSE /\ g_state' = auth_node(g_state, a_returns["missing_auth"])
            /\ g_pc' = "aggregator"
    /\ UNCHANGED g_result
    /\ UNCHANGED notGraphVars

\* lines 42-52 and the edge of line 70
AggregatorNode ==
    /\ g_pc = "aggregator"
    /\ g_state' = aggregator_node(g_state)
    /\ g_pc' = "END"
    /\ UNCHANGED g_result
    /\ UNCHANGED notGraphVars

\* lines 99-101: return final_state["findings"]
GraphReturn ==
    /\ g_pc = "END"
    /\ g_result' = g_state.findings
    /\ g_pc' = "returned"
    /\ UNCHANGED g_state
    /\ UNCHANGED notGraphVars

GraphStep ==
    \/ SecretsNode
    \/ SqlNode
    \/ AuthNode
    \/ AggregatorNode
    \/ GraphReturn

\* the orchestrator and the graph, each called once on the same files
BothStep ==
    \/ AgentStep
    \/ GraphStep

\* ========================================================================
\* main.py: generate_fix, fix_all
\* ========================================================================
\* str.strip() with the newline among the white space
RECURSIVE strip_text(_)
strip_text(s) ==
    IF s # <<>> /\ Head(s) \in Spaces \cup {Newline} THEN strip_text(Tail(s))
    ELSE IF s # <<>> /\ s[Len(s)] \in Spaces \cup {Newline}
         THEN strip_text(SubSeq(s, 1, Len(s) - 1))
         ELSE s

\* str(n) of an int n >= 0
DigitSeq == <<"0", "1", "2", "3", "4", "5", "6", "7", "8", "9">>
RECURSIVE str_of_int(_)
str_of_int(n) ==
    IF n < 10 THEN <<DigitSeq[n + 1]>>
    ELSE str_of_int(n \div 10) \o <<DigitSeq[(n % 10) + 1]>>

RECURSIVE join_with(_, _, _)
\* sep.join(parts[k..])
join_with(sep, parts, k) ==
    IF k > Len(parts) THEN <<>>
    ELSE parts[k] \o (IF k < Len(parts) THEN sep ELSE <<>>)
         \o join_with(sep, parts, k + 1)

\* hashlib.sha256(raw.encode()).hexdigest(): the digest of a text, taken
\* as free of collisions; two digests are equal exactly when the texts are
sha256_hexdigest(raw) == [sha256_of |-> raw]

\* line 328: the text hashed by generate_fix
generate_fix_raw(vuln_type, snippet) ==
    vuln_type \o <<":", ":">> \o snippet

\* line 398: f"{v.type}:{v.line}:{v.code_snippet}"
vuln_text(v) ==
    v.type \o <<":">> \o str_of_int(v.line) \o <<":">> \o v.code_snippet

\* line 398: the text hashed by fix_all
fix_all_raw(filename, vulns) ==
    filename \o <<":", ":">>
    \o join_with(<<"|", "|">>, [k \in 1..Len(vulns) |-> vuln_text(vulns[k])], 1)

\* lines 354-362 and 432-440: the answer of the model, stripped, without
\* its surrounding markdown fence
strip_fences(content) ==
    LET fixed == strip_text(content)
        fence == <<Backtick, Backtick, Backtick>>
    IN  IF startswith(fixed, fence)
        THEN LET lines == Tail(split_lines(fixed, 1, <<>>))
                 kept  == IF lines # <<>> /\ strip_text(lines[Len(lines)]) = fence
                          THEN SubSeq(lines, 1, Len(lines) - 1)
                          ELSE lines
             IN  join_newline(kept, 1)
        ELSE fixed

\* lines 334-335, 368-371, 405-406, 446-449
FixUnavailable == "AI fix unavailable. Showing manual fix suggestion."

\* the requests of the two operations: the fields as received
FixTypes == {<<"S", "Q", "L", " ", "I", "n", "j", "e", "c", "t", "i", "o", "n">>, <<" ", "a", "p", "p", ".", "p", "y">>}
FixSnippets == {<<" ", " ">>,
                <<"q", " ", "=", " ", "x", Newline>>,
                <<"S", "Q", "L", " ", "I", "n", "j", "e", "c", "t", "i", "o", "n", ":", "2", ":", "q", " ", "=", " ", "x">>}
FixFilenames == {<<"a", "p", "p", ".", "p", "y", " ">>, <<"d", "b", ".", "p", "y">>}
VulnItem(type, line, code_snippet) ==
    [type |-> type, line |-> line, code_snippet |-> code_snippet]
VulnSqli == VulnItem(<<"S", "Q", "L", " ", "I", "n", "j", "e", "c", "t", "i", "o", "n">>, 2, <<"q", " ", "=", " ", "x">>)
\* the defaults of lines 379-381
VulnSecret == VulnItem(<<"H", "a", "r", "d", "c", "o", "d", "e", "d", " ", "S", "e", "c", "r", "e", "t">>, 0, <<>>)
FixVulnLists == {<<>>, <<VulnSqli>>, <<VulnSqli, VulnSecret>>, <<VulnSecret>>}

\* what chat.completions.create gives: an exception, or the content of
\* the first choice
GroqAnswers ==
    {[raised |-> TRUE,  content |-> <<>>],
     [raised |-> FALSE, content |-> <<" ", "q", " ", "=", " ", "s", "a", "f", "e", "(", "x", ")", Newline>>],
     [raised |-> FALSE, content |-> <<Backtick, Backtick, Backtick, "p", "y", "t", "h", "o", "n", Newline, "q", " ", "=", " ", "s", "a", "f", "e", "(", "x", ")", Newline, Backtick, Backtick, Backtick, Newline>>]}

NoFixResponse == [operation |-> "none"]

InitFixIdle ==
    /\ groq_client = FALSE
    /\ fix_cache = <<>>
    /\ fix_response = NoFixResponse
    /\ fix_requests = 0

\* line 29 and line 315: the process after start-up
InitFixVars ==
    /\ groq_client \in BOOLEAN
    /\ fix_cache = <<>>
    /\ fix_response = NoFixResponse
    /\ fix_requests = 0

\* the dict after _fix_cache[key] = value, with the operation that stored
\* the entry
cache_store(cache, key, value, operation) ==
    [k \in DOMAIN cache \cup {key} |->
        IF k = key THEN [value |-> value, stored_by |-> operation]
        ELSE cache[k]]

\* lines 318-372: one generate-fix request. The handler has no await: it
\* runs to its end before another request is served.
GenerateFix ==
    /\ fix_requests < MaxFixRequests
    /\ fix_requests' = fix_requests + 1
    /\ \E t \in FixTypes, s \in FixSnippets, answer \in GroqAnswers :
          LET vuln_type == strip_text(t)
              snippet   == strip_text(s)
              cache_key == sha256_hexdigest(generate_fix_raw(vuln_type, snippet))
          IN  IF snippet = <<>>
              THEN /\ fix_response' = [operation |-> "generate_fix",
                                       status_code |-> 400,
                                       error |-> "No code snippet provided."]
                   /\ fix_cache' = fix_cache
              ELSE IF cache_key \in DOMAIN fix_cache
              THEN /\ fix_response' = [operation |-> "generate_fix",
                                       status_code |-> 200,
                                       fixed_code |-> fix_cache[cache_key].value,
                                       cached |-> TRUE,
                                       stored_by |-> fix_cache[cache_key].stored_by]
                   /\ fix_cache' = fix_cache
              ELSE IF ~groq_client \/ answer.raised
              THEN /\ fix_response' = [operation |-> "generate_fix",
                                       status_code |-> 200,
                                       fixed_code |-> FixUnavailable,
                                       cached |-> FALSE]
                   /\ fix_cache' = fix_cache
              ELSE /\ fix_response' = [operation |-> "generate_fix",
                                       status_code |-> 200,
                                       fixed_code |-> strip_fences(answer.content),
                                       cached |-> FALSE]
                   /\ fix_cache' = cache_store(fix_cache, cache_key,
                                               strip_fences(answer.content),
                                               "generate_fix")
    /\ UNCHANGED groq_client
    /\ UNCHANGED notFixVars

\* lines 388-450: one fix-all request
FixAll ==
    /\ fix_requests < MaxFixRequests
    /\ fix_requests' = fix_requests + 1
    /\ \E f \in FixFilenames, vulns \in FixVulnLists, answer \in GroqAnswers :
          LET filename  == strip_text(f)
              cache_key == sha256_hexdigest(fix_all_raw(filename, vulns))
          IN  IF vulns = <<>>
              THEN /\ fix_response' = [operation |-> "fix_all",
                                       status_code |-> 400,
                                       error |-> "No vulnerabilities provided."]
                   /\ fix_cache' = fix_cache
              ELSE IF cache_key \in DOMAIN fix_cache
              THEN /\ fix_response' = [operation |-> "fix_all",
                                       status_code |-> 200,
                                       fixed_file |-> fix_cache[cache_key].value,
                                       cached |-> TRUE,
                                       stored_by |-> fix_cache[cache_key].stored_by]
                   /\ fix_cache' = fix_cache
              ELSE IF ~groq_client \/ answer.raised
              THEN /\ fix_response' = [operation |-> "fix_all",
                                       status_code |-> 200,
                                       fixed_file |-> FixUnavailable,
                                       cached |-> FALSE]
                   /\ fix_cache' = fix_cache
              ELSE /\ fix_response' = [operation |-> "fix_all",
                                       status_code |-> 200,
                                       fixed_file |-> strip_fences(answer.content),
                                       cached |-> FALSE]
                   /\ fix_cache' = cache_store(fix_cache, cache_key,
                                               strip_fences(answer.content),
                                               "fix_all")
    /\ UNCHANGED groq_client
    /\ UNCHANGED notFixVars

FixStep ==
    \/ GenerateFix
    \/ FixAll

\* ========================================================================
\* Specifications
\* ========================================================================
InitClone ==
    InitCloneVars /\ InitScanIdle /\ InitAgentsIdle /\ InitReqIdle
    /\ InitSecretsIdle /\ InitAuthIdle /\ InitRerunIdle /\ InitSqlIdle
    /\ InitGraphIdle /\ InitFixIdle
SpecClone == InitClone /\ [][CloneStep]_vars

InitScan ==
    InitCloneIdle /\ InitScanVars /\ InitAgentsIdle /\ InitReqIdle
    /\ InitSecretsIdle /\ InitAuthIdle /\ InitRerunIdle /\ InitSqlIdle
    /\ InitGraphIdle /\ InitFixIdle
SpecScan == InitScan /\ [][ScanStep]_vars

InitAgents ==
    InitCloneIdle /\ InitScanIdle /\ InitAgentVars /\ InitReqIdle
    /\ InitSecretsIdle /\ InitAuthIdle /\ InitRerunIdle /\ InitSqlIdle
    /\ InitGraphIdle /\ InitFixIdle
SpecAgents == InitAgents /\ [][AgentStep]_vars

Init ==
    InitCloneIdle /\ InitScanIdle /\ InitAgentsIdle /\ InitReqVars
    /\ InitSecretsIdle /\ InitAuthIdle /\ InitRerunIdle /\ InitSqlIdle
    /\ InitGraphIdle /\ InitFixIdle
Spec == Init /\ [][Next]_vars

InitSecrets ==
    InitCloneIdle /\ InitScanIdle /\ InitAgentsIdle /\ InitReqIdle
    /\ InitSecretVars /\ InitAuthIdle /\ InitRerunIdle /\ InitSqlIdle
    /\ InitGraphIdle /\ InitFixIdle
SpecSecrets == InitSecrets /\ [][SecretsStep]_vars

InitAuth ==
    InitCloneIdle /\ InitScanIdle /\ InitAgentsIdle /\ InitReqIdle
    /\ InitSecretsIdle /\ InitAuthVars /\ InitRerunIdle /\ InitSqlIdle
    /\ InitGraphIdle /\ InitFixIdle
SpecAuth == InitAuth /\ [][AuthStep]_vars

InitRerun ==
    InitCloneIdle /\ InitScanIdle /\ InitAgentVars /\ InitReqIdle
    /\ InitSecretsIdle /\ InitAuthIdle /\ InitRerunVars /\ InitSqlIdle
    /\ InitGraphIdle /\ InitFixIdle
SpecRerun == InitRerun /\ [][RerunStep]_vars

InitSql ==
    InitCloneIdle /\ InitScanIdle /\ InitAgentsIdle /\ InitReqIdle
    /\ InitSecretsIdle /\ InitAuthIdle /\ InitRerunIdle /\ InitSqlVars
    /\ InitGraphIdle /\ InitFixIdle
SpecSql == InitSql /\ [][SqlStep]_vars

InitGraph ==
    InitCloneIdle /\ InitScanIdle /\ InitAgentVars /\ InitReqIdle
    /\ InitSecretsIdle /\ InitAuthIdle /\ InitRerunIdle /\ InitSqlIdle
    /\ InitGraphVars /\ InitFixIdle
SpecGraph == InitGraph /\ [][BothStep]_vars

InitFix ==
    InitCloneIdle /\ InitScanIdle /\ InitAgentsIdle /\ InitReqIdle
    /\ InitSecretsIdle /\ InitAuthIdle /\ InitRerunIdle /\ InitSqlIdle
    /\ InitGraphIdle /\ InitFixVars
SpecFix == InitFix /\ [][FixStep]_vars

\* ========================================================================
\* Properties
\* ========================================================================
\* How the specifications fit together: every way a call of clone_repo
\* ends under SpecClone is one of CloneOutcomes, and every way the walk of
\* scan_files ends under SpecScan satisfies WalkOutcomeOk.
CloneOutcomesCover ==
    c_pc \in {"raised", "returned", "killed"} =>
        [result |-> IF c_pc = "killed" THEN "killed" ELSE c_result,
         dir    |-> temp_dir = "exists"] \in CloneOutcomes
WalkOutcomeCover ==
    s_pc \in {"load", "done"} => WalkOutcomeOk(Len(code_paths), hit_tree_cap)

\* C1: when exactly one of the three detectors raises, _run_agents_parallel
\* still returns, in every completion order: the mapping has the three
\* categories, the failing one is the empty list and the other two hold
\* exactly what their detectors returned.
C1_OneDetectorFails ==
    (a_pc = "returned" /\ Cardinality(a_faulty) = 1) =>
        /\ DOMAIN a_findings = Categories
        /\ \A c \in Categories :
              a_findings[c] = IF c \in a_faulty THEN <<>> ELSE a_returns[c]

\* the case of C1: the first detector submitted is the last to complete,
\* one detector raised and the two others found something
C1_Witness ==
    /\ a_pc = "returned"
    /\ Cardinality(a_faulty) = 1
    /\ \A c \in Categories \ a_faulty : a_returns[c] # <<>>
    /\ a_faulty = {"sql_injection"}
    /\ a_returns["sql_injection"] # <<>>
    /\ a_key_order = <<"missing_auth", "sql_injection", "secrets_detected">>
    /\ a_log = {"sql_injection"}

\* C2 as stated: once clone_repo has returned, _blocking_scan does not
\* raise, and any exception during sampling, detection or enrichment gives
\* the result with no files, three empty categories, was_truncated true and
\* a notice.
C2_AnyExceptionGivesEmptyResult ==
    /\ (w_pc = "raised" => w_repo_path = "none")
    /\ (w_pc = "returned" /\ w_log # {}) =>
          /\ w_result.files = <<>>
          /\ w_result.findings = EmptyFindings
          /\ w_result.was_truncated
          /\ w_result.scan_notice # NoticeNone

\* C2, amended: once clone_repo has returned, _blocking_scan does not
\* raise and returns a result with the three categories.  An exception that
\* escapes scan_files or _run_agents_parallel gives the result with no
\* files, three empty categories, total_found 0, was_truncated true and a
\* notice.  An exception inside one detector only empties that detector's
\* category, and an exception of the enrichment only leaves the findings
\* as the detectors produced them: the result then keeps the loaded files,
\* the discovered count and the sampler's flag, with a notice exactly when
\* that flag is true.
C2_PostCloneDegradation ==
    /\ (w_pc = "raised" => w_repo_path = "none")
    /\ w_pc = "returned" =>
          /\ DOMAIN w_result.findings = Categories
          /\ w_result.repo_path = w_repo_path
          /\ (w_log \cap {"post_clone:sampling", "post_clone:detection"} # {}) =>
                /\ w_result.files = <<>>
                /\ w_result.findings = EmptyFindings
                /\ w_result.total_found = 0
                /\ w_result.was_truncated
                /\ w_result.scan_notice # NoticeNone
          /\ (w_log \cap {"post_clone:sampling", "post_clone:detection"} = {}
              /\ w_scan.files # <<>>) =>
                /\ w_result.files = w_scan.files
                /\ w_result.total_found = w_scan.total_found
                /\ w_result.was_truncated = w_scan.was_truncated
                /\ (w_result.scan_notice # NoticeNone) = w_scan.was_truncated
                /\ \A c \in Categories :
                      ("agent:" \o c) \in w_log => w_result.findings[c] = <<>>
                /\ "enrichment" \in w_log => w_result.findings = w_findings

\* the case of C2: scan_files raised after the clone and the worker
\* returned
C2_Witness ==
    /\ w_pc = "returned"
    /\ w_repo_path = "dir"
    /\ w_log = {"post_clone:sampling"}
    /\ w_result = post_clone_failure_result("dir")

\* C3 as stated: a request with a non-empty url is answered with the
\* failure response only if clone_repo failed; once clone_repo has
\* returned a path the answer is a report.
C3_FailureOnlyIfFetchFailed ==
    [][(h_response = NoResponse /\ h_response' = CloneFailResponse)
          => w_repo_path = "none"]_vars

\* C4 as stated: once the request is answered and its worker has finished,
\* a directory clone_repo returned has been removed by cleanup_repo, on
\* every path.
C4_FetchedDirectoryRemoved ==
    (h_pc = "responded" /\ w_pc = "returned" /\ w_repo_path = "dir") =>
        (cleanup_calls > 0 /\ ~dir_exists)

\* C5 as stated: whenever clone_repo does not return a path it has raised
\* RuntimeError, and the temporary directory is gone by then.
C5_FailureIsRuntimeError ==
    c_pc \in {"raised", "killed"} =>
        (c_pc = "raised" /\ c_result = "RuntimeError" /\ temp_dir = "removed")

\* C6 as stated: when communicate times out, the process running
\* clone_repo survives; after the kill no clone process is left; and the
\* call ends by raising RuntimeError with the temporary directory removed.
C6_TimeoutKillsOnlyCloneTree ==
    c_timed_out =>
        /\ Scanner \in alive
        /\ c_pc # "killed"
        /\ c_pc \in {"wait", "rmtree_timeout", "raised"} =>
              alive \cap ({Git} \cup Helpers) = {}
        /\ c_pc = "raised" =>
              (c_result = "RuntimeError" /\ temp_dir = "removed")

\* C7: in every result of scan_files, the number of loaded files is at
\* most MAX_FILES_INITIAL and at most total_found, and total_found is at
\* most MAX_TOTAL_FILES.
C7_SamplerBudgets ==
    s_pc = "done" =>
        /\ Len(s_result.files) <= MAX_FILES_INITIAL
        /\ Len(s_result.files) <= s_result.total_found
        /\ s_result.total_found <= MAX_TOTAL_FILES

\* the case of C7: the index is full, the load budget is used up, and a
\* file beyond the load budget was discovered
C7_Witness ==
    /\ s_pc = "done"
    /\ s_result.total_found = MAX_TOTAL_FILES
    /\ Len(s_result.files) = MAX_FILES_INITIAL
    /\ s_result.total_found > Len(s_result.files)

\* C8 as stated: in every result of scan_files, was_truncated is true
\* whenever total_found exceeds the number of loaded files or a walk cap
\* was hit.
C8_TruncatedWheneverFewerLoaded ==
    s_pc = "done" =>
        ((s_result.total_found > Len(s_result.files) \/ hit_tree_cap)
            => s_result.was_truncated)

\* is the response a report (lines 292-301)?
IsReport(response) == "partial_scan" \in DOMAIN response

\* C9 as stated: in every report, partial_scan is true if and only if more
\* files were discovered than loaded or a walk cap was hit.
C9_PartialIffFewerLoadedOrCap ==
    (h_pc = "responded" /\ IsReport(h_response)) =>
        (h_response.partial_scan <=>
            (h_response.total_files > h_response.files_scanned \/ w_hit_cap))

\* C9, amended: in every report, partial_scan is true if and only if more
\* files were discovered than loaded, or a walk cap was hit, or no file was
\* loaded at all (the result for zero files and the result after a
\* post-clone exception set the flag whatever the counts).
C9_PartialIffFewerLoadedOrCapOrNone ==
    (h_pc = "responded" /\ IsReport(h_response)) =>
        (h_response.partial_scan <=>
            \/ h_response.total_files > h_response.files_scanned
            \/ w_hit_cap
            \/ h_response.files_scanned = 0)

\* the case of C9: a report on a repository with no code file, no cap hit
C9_Witness ==
    /\ h_pc = "responded"
    /\ IsReport(h_response)
    /\ h_response.total_files = 0
    /\ h_response.files_scanned = 0
    /\ ~w_hit_cap
    /\ w_log = {}
    /\ h_response.partial_scan

\* C10: for every match of every matcher on every line of every file, the
\* finding's `matched` is the first 10 characters of the matched text
\* followed by ***REDACTED***; the matched text is longer than 10
\* characters, and `matched` does not contain it.
C10_EvidenceIsMasked ==
    sec_pc = "returned" =>
        /\ Len(sec_findings) = Len(sec_matched)
        /\ \A k \in 1..Len(sec_findings) :
              /\ sec_findings[k].matched = Take(sec_matched[k], 10) \o REDACTED
              /\ Len(sec_matched[k]) > 10
              /\ ~Contains(sec_findings[k].matched, sec_matched[k])

\* the case of C10: several matches in one file, one of them of the
\* shortest length a matcher allows (12 characters), one on a second line
C10_Witness ==
    /\ sec_pc = "returned"
    /\ Len(sec_findings) >= 2
    /\ \E k \in 1..Len(sec_findings) :
          /\ Len(sec_matched[k]) = 12
          /\ sec_findings[k].type = "Database Connection String"
    /\ \E k \in 1..Len(sec_findings) : sec_findings[k].line = 2

\* ---- C11 ----
\* the findings about the file `path`, in the order returned
FindingsAbout(findings, path) ==
    SelectSeq(findings, LAMBDA x : x.file = path)

\* C11: a file whose content holds a file-level auth-installation
\* statement (router.use( or app.use( with authenticate, authMiddleware or
\* protect) gets no finding, whatever route it declares and whether the
\* statement stands before or after the route; the other file of the set
\* gets the findings it gets when it is scanned alone.
C11_FileLevelAuthSilencesFile ==
    (auth_pc = "returned" /\ auth_case.kind = "file_level") =>
        /\ auth_case.other.auth =>
               FindingsAbout(auth_findings, "guarded.js") = <<>>
        /\ FindingsAbout(auth_findings, "open.js")
               = detect_missing_auth(<<OpenFile>>)
        /\ Len(FindingsAbout(auth_findings, "open.js")) = 1

\* a guarded file whose route is a sensitive POST declared before the
\* statement, listed after the unguarded file: only the unguarded file's
\* finding is returned
C11_Witness ==
    /\ auth_pc = "returned"
    /\ auth_case.kind = "file_level"
    /\ auth_case.other.auth
    /\ auth_case.route.verb = "post"
    /\ auth_case.route.sensitive_decl
    /\ auth_case.i = 0
    /\ auth_case.at = 2
    /\ Len(detect_missing_auth(
             <<SourceFile("alone.js", auth_case.route.text, ".js")>>)) > 0
    /\ Len(auth_findings) = 1
    /\ auth_findings[1].file = "open.js"

\* ---- C12 ----
\* the text the matcher p recognises as the route declaration of `line`
\* (route_match.group(0)), or <<>>
DeclarationOf(line, p) ==
    LET route_match == search_span(ROUTE_PATTERNS[p][1], line, 1)
    IN  IF route_match = <<>> THEN <<>>
        ELSE SubSeq(line, route_match[1], route_match[2] - 1)

\* the record of a route line says what the source says of its text
RouteLineAsDeclared(r) ==
    /\ (r.family # "none") =
           (\E p \in 1..Len(ROUTE_PATTERNS) : DeclarationOf(r.text, p) # <<>>)
    /\ r.sensitive_decl =
           (\E p \in 1..Len(ROUTE_PATTERNS) :
                is_sensitive(DeclarationOf(r.text, p)))

\* C12: a route line bound to GET whose route declaration holds no
\* sensitive keyword, with no auth pattern in its context window, gets no
\* finding, whatever follows the declaration on the line.
C12_PlainGetNeverFlagged ==
    (/\ auth_pc = "returned"
     /\ auth_case.kind = "line"
     /\ auth_case.route.verb = "get"
     /\ ~auth_case.route.sensitive_decl
     /\ RouteLineAsDeclared(auth_case.route)
     /\ ~has_auth(auth_case.route.text))
        => auth_findings = <<>>

\* ---- C13 ----
MutatingVerbs == {"post", "put", "delete", "patch"}

\* C13: a route line recognised by one of the three matcher families and
\* bound to POST, PUT, DELETE or PATCH, in a file without file-level auth
\* and with no auth pattern in the context window, gets a Missing
\* Authentication finding, sensitive keyword or not.
C13_MutatingRouteFlagged ==
    (/\ auth_pc = "returned"
     /\ auth_case.kind = "line"
     /\ auth_case.route.verb \in MutatingVerbs
     /\ auth_case.route.family \in {"decorator", "chain", "annotation"}
     /\ RouteLineAsDeclared(auth_case.route)
     /\ ~file_has_auth(auth_case.route.text)
     /\ ~has_auth(auth_case.route.text))
        => \E k \in 1..Len(auth_findings) :
               /\ auth_findings[k].type = "Missing Authentication"
               /\ auth_findings[k].line = 1

\* ---- C14 ----
\* C14: every flagged route declaration line yields exactly one finding;
\* the file whose only route is @app.post("/admin/delete_user") followed
\* by its handler body, with no auth pattern in the window, yields exactly
\* one finding, of severity HIGH.
C14_OneFindingPerFlaggedLine ==
    auth_pc = "returned" =>
        /\ \A f \in {"routes.py", "guarded.js", "open.js"} :
               \A k1, k2 \in 1..Len(auth_findings) :
                   (/\ auth_findings[k1].file = f
                    /\ auth_findings[k2].file = f
                    /\ auth_findings[k1].line = auth_findings[k2].line)
                       => k1 = k2
        /\ auth_case.kind = "sample" =>
               /\ Len(auth_findings) = 1
               /\ auth_findings[1].severity = "HIGH"

\* ---- C15 ----
\* the 0-based indices of the lines [max(0, i-5), min(len, i+5))
WindowIndices(len, i) ==
    {k \in 0..(len - 1) : k >= i - 5 /\ k < i + 5}

C16_SecondRunSameFindings ==
    (a_run = 2 /\ a_pc = "returned") =>
        /\ DOMAIN a_findings = DOMAIN a_prev
        /\ \A c \in Categories : a_findings[c] = a_prev[c]

\* two finished runs whose tasks were collected in different orders, with
\* a category of two different findings and a detector that raised
C16_Witness ==
    /\ a_run = 2
    /\ a_pc = "returned"
    /\ a_key_order # a_prev_order
    /\ a_key_order[1] = "missing_auth"
    /\ a_prev_order[1] = "secrets_detected"
    /\ a_faulty = {"sql_injection"}
    /\ Len(a_findings["missing_auth"]) = 2
    /\ a_findings["missing_auth"][1] # a_findings["missing_auth"][2]
    /\ a_findings["secrets_detected"] # <<>>

\* ---- C17 ----
\* the finding types a detector emits (secrets_agent.py 5-16 as named by
\* SecretFinding, sql_agent.py 57, auth_agent.py 84)
TypesOf(name) ==
    CASE name = "secrets_detected" -> {SecretFinding.type}
      [] name = "sql_injection"    -> {SqlFinding.type}
      [] name = "missing_auth"     -> {AuthFinding.type}

\* at every point of a run: the keys stored so far are the categories
\* stored exactly once, no category was stored twice, and the value under a
\* key is its own detector's list, or the empty list if that detector raised
OwnCategoryOnly ==
    /\ DOMAIN a_findings = {c \in Categories : a_writes[c] = 1}
    /\ \A c \in Categories : a_writes[c] <= 1
    /\ \A c \in DOMAIN a_findings :
          /\ a_findings[c] = IF c \in a_faulty THEN <<>> ELSE a_returns[c]
          /\ \A k \in 1..Len(a_findings[c]) :
                a_findings[c][k].type \in TypesOf(c)
    /\ a_pc = "returned" => DOMAIN a_findings = Categories

\* C17: in every interleaving and completion order of the three detector
\* tasks, the returned mapping has exactly the keys secrets_detected,
\* sql_injection and missing_auth, each stored exactly once, each holding
\* what its own detector returned (the empty list if it raised) and never
\* another detector's findings; no step changes the shared file list.
C17_EachCategoryFromItsOwnDetector ==
    /\ []OwnCategoryOnly
    /\ [][a_files' = a_files]_vars

\* a run in which the tasks completed in an order that is neither the
\* submission order nor its reverse, and every detector found something
C17_Witness ==
    /\ a_pc = "returned"
    /\ a_faulty = {}
    /\ a_key_order = <<"sql_injection", "missing_auth", "secrets_detected">>
    /\ \A c \in Categories : a_findings[c] # <<>>
    /\ Len(a_findings["sql_injection"]) = 2
    /\ Len(a_files) = MAX_FILES_INITIAL

\* ---- C18 ----
\* C18: in every report, the summary's total is the sum of the three
\* category counts, each category count is the length of that category's
\* list of findings, and critical + high + medium + low is the total.
C18_SummaryCountsAddUp ==
    (h_pc = "responded" /\ IsReport(h_response)) =>
        LET summary == h_response.summary
            found == h_response.findings
        IN  /\ summary.secrets_detected = Len(found["secrets_detected"])
            /\ summary.sql_injection = Len(found["sql_injection"])
            /\ summary.missing_auth = Len(found["missing_auth"])
            /\ summary.total_findings
                   = summary.secrets_detected + summary.sql_injection
                     + summary.missing_auth
            /\ summary.critical + summary.high + summary.medium + summary.low
                   = summary.total_findings

\* a report with findings of three severities in three categories
C18_Witness ==
    /\ h_pc = "responded"
    /\ IsReport(h_response)
    /\ h_response.summary.total_findings = 5
    /\ h_response.summary.critical = 2
    /\ h_response.summary.high = 2
    /\ h_response.summary.medium = 1
    /\ h_response.summary.low = 0
    /\ h_response.summary.secrets_detected = 1
    /\ h_response.summary.missing_auth = 2

\* ---- C19 ----
\* the filesystem entries the walk has examined: the directories below the
\* repository root that os.walk has yielded and the filenames the loop has
\* gone through (the filename on which the hard cap breaks is not examined)
EntriesVisited ==
    (IF dirs_walked > 0 THEN dirs_walked - 1 ELSE 0)
    + (IF tree_entries_seen >= HARD_TREE_CAP THEN tree_entries_seen - 1
       ELSE tree_entries_seen)

\* C19: the walk visits fewer than HARD_TREE_CAP filesystem entries,
\* directories counted as well as files, and records at most
\* MAX_TOTAL_FILES paths; once a cap is reached no further entry is
\* examined and the result is marked truncated.
C19_CapsCountDirectoriesToo ==
    /\ EntriesVisited < HARD_TREE_CAP
    /\ Len(code_paths) <= MAX_TOTAL_FILES
    /\ (tree_entries_seen >= HARD_TREE_CAP
        \/ Len(code_paths) >= MAX_TOTAL_FILES)
           => /\ hit_tree_cap
              /\ s_pc \in {"load", "done"}
              /\ s_pc = "done" => s_result.was_truncated

\* ---- C20 ----
\* no component of the relative directory `dir` is an ignored or hidden name
NoPrunedComponent(dir) ==
    \A k \in 1..Len(dir) :
        dir[k] \notin IGNORED_DIRS /\ ~StartsWithDot(dir[k])

\* C20: no discovered or loaded path lies below a directory whose name is
\* in IGNORED_DIRS or starts with a dot, and no such directory is yielded
\* by the walk or waits to be yielded: its files and subdirectories are
\* never visited or counted.
C20_NothingBelowPrunedDirectories ==
    /\ \A k \in 1..Len(code_paths) : NoPrunedComponent(code_paths[k].dir)
    /\ NoPrunedComponent(cur_root)
    /\ \A k \in 1..Len(walk_stack) : NoPrunedComponent(walk_stack[k])
    /\ s_pc = "done" =>
          \A k \in 1..Len(s_result.files) :
              NoPrunedComponent(s_result.files[k].path.dir)

\* a finished walk that met an ignored directory and a hidden one, went
\* down two levels of source directories and loaded a file found below
C20_Witness ==
    /\ s_pc = "done"
    /\ pruned_names = {"tests", ".github"}
    /\ dirs_walked = 3
    /\ Len(s_result.files) > 0
    /\ \E k \in 1..Len(s_result.files) :
          Len(s_result.files[k].path.dir) > 0

\* ---- C21 ----
\* the 1-based positions, among the first MAX_FILES_INITIAL discovered
\* paths, of the files that can be read and are not larger than
\* MAX_FILE_SIZE
LoadablePositions ==
    {k \in 1..Len(code_paths) :
        /\ k <= MAX_FILES_INITIAL
        /\ s_disk[k].readable
        /\ s_disk[k].size <= MAX_FILE_SIZE}

\* C21: scan_files returns, and the loaded files are exactly the readable
\* paths of size at most MAX_FILE_SIZE among the first MAX_FILES_INITIAL
\* discovered paths, in discovery order; an oversized or unreadable file
\* is left out and the files after it are still loaded.
C21_LoadedAreReadableSmallPrefix ==
    s_pc = "done" =>
        /\ Len(s_result.files) = Cardinality(LoadablePositions)
        /\ \A k \in LoadablePositions :
              s_result.files[Cardinality({i \in LoadablePositions : i <= k})]
                  .path = code_paths[k]
        /\ s_result.total_found = Len(code_paths)

\* more paths discovered than are read; the first of the prefix cannot be
\* read, the second is exactly MAX_FILE_SIZE bytes long and is loaded
C21_Witness ==
    /\ s_pc = "done"
    /\ Len(code_paths) > MAX_FILES_INITIAL
    /\ ~s_disk[1].readable
    /\ s_disk[2].readable
    /\ s_disk[2].size = MAX_FILE_SIZE
    /\ Len(s_result.files) >= 1
    /\ s_result.files[1].path = code_paths[2]

\* ---- C22 ----
\* `field` holds 16 or more consecutive characters of `text`, or the whole
\* of a shorter `text`
SharesFragment(field, text) ==
    LET n == IF Len(text) < 16 THEN Len(text) ELSE 16
    IN  \E i \in 1..(Len(text) - n + 1) :
            Contains(field, SubSeq(text, i, i + n - 1))

\* the messages of the exceptions the enrichment service can raise
InternalErrorTexts == {ConnectionErrorText, StatusErrorText}

\* C22: nothing returned to the caller holds text of an internal
\* exception: an error response is one of the fixed messages, and in a
\* report the notice is one of the fixed notices and no ai_risk of a finding
\* holds text of the exception the enrichment service raised.
C22_NoExceptionTextReturned ==
    h_pc = "responded" =>
        IF IsReport(h_response)
        THEN /\ h_response.scan_notice
                    \in {NoticeNone, NoticeNoFiles, NoticeLarge, NoticeLimited}
             /\ \A c \in DOMAIN h_response.findings :
                   \A k \in 1..Len(h_response.findings[c]) :
                       "ai_risk" \in DOMAIN h_response.findings[c][k] =>
                           \A text \in InternalErrorTexts :
                               ~SharesFragment(
                                   h_response.findings[c][k].ai_risk, text)
        ELSE h_response.error
                 \in {CLONE_FAIL_MSG, "Please enter a repository URL."}

\* ---- C23 ----
\* the keys enrichment adds
AiKeys == {"ai_risk", "ai_exploit", "ai_fix"}

\* `after` is `before` with the keys of AiKeys added and nothing else
\* changed
AddsOnlyAiKeys(before, after) ==
    /\ DOMAIN after = DOMAIN before \cup AiKeys
    /\ \A key \in DOMAIN before : after[key] = before[key]

\* C23: when enrichment returns, every category holds the same findings
\* in the same order as before it, each with its detector-authored fields
\* unchanged and with the keys ai_risk, ai_exploit and ai_fix added,
\* whether the service answered, failed or is not configured.
C23_EnrichmentOnlyAdds ==
    [][(w_pc = "enrich" /\ w_pc' = "returned" /\ "enrichment" \notin w_log')
          => /\ DOMAIN w_findings' = DOMAIN w_findings
             /\ \A c \in DOMAIN w_findings :
                   /\ Len(w_findings'[c]) = Len(w_findings[c])
                   /\ \A k \in 1..Len(w_findings[c]) :
                         AddsOnlyAiKeys(w_findings[c][k], w_findings'[c][k])
             /\ w_result'.findings = w_findings']_vars

\* enrichment has returned with the service failing, for two findings of
\* one category that differ
C23_Witness ==
    /\ w_pc = "returned"
    /\ "enrichment" \notin w_log
    /\ Len(w_findings["missing_auth"]) = 2
    /\ w_findings["missing_auth"][1].severity = "HIGH"
    /\ w_findings["missing_auth"][2].severity = "MEDIUM"
    /\ "ai_risk" \in DOMAIN w_findings["missing_auth"][1]
    /\ Len(w_findings["missing_auth"][1].ai_risk) > Len(AiFailedPrefix)
    /\ SubSeq(w_findings["missing_auth"][1].ai_risk, 1, Len(AiFailedPrefix))
           = AiFailedPrefix

\* ---- C24 ----
RECURSIVE NamesOfMatchers(_, _)
\* the vulnerability names of the matchers p, p+1, ... that are in
\* `matchers`, in the order of SQL_PATTERNS
NamesOfMatchers(matchers, p) ==
    IF p > Len(SQL_PATTERNS) THEN <<>>
    ELSE (IF p \in matchers THEN <<SQL_PATTERNS[p][2]>> ELSE <<>>)
         \o NamesOfMatchers(matchers, p + 1)

\* the findings about line n are those of a line that is a comment or not
\* and in which exactly `matchers` match
FindingsOfLineAre(n, comment, matchers) ==
    LET here == SelectSeq(sql_findings, LAMBDA x : x.line = n)
    IN  /\ comment => here = <<>>
        /\ ~comment =>
              /\ [k \in 1..Len(here) |-> here[k].vulnerability]
                     = NamesOfMatchers(matchers, 1)
              /\ \A k \in 1..Len(here) :
                    here[k].severity = "CRITICAL"
                    /\ here[k].type = "SQL Injection"

\* C24: a line whose trimmed form begins with '#', '//' or '*' gets no
\* finding whatever else it holds; every other line gets exactly one
\* finding per injection matcher that matches it, each of severity CRITICAL.
C24_CommentsSkippedOthersPerMatcher ==
    sql_pc = "returned" =>
        /\ sql_case.kind \in {"line", "pair"} =>
              FindingsOfLineAre(1, sql_case.first.comment,
                                sql_case.first.matchers)
        /\ sql_case.kind = "pair" =>
              FindingsOfLineAre(2, sql_case.second.comment,
                                sql_case.second.matchers)
        /\ sql_case.kind = "line" =>
              \A k \in 1..Len(sql_findings) : sql_findings[k].line = 1
        /\ sql_case.kind = "pair" =>
              \A k \in 1..Len(sql_findings) : sql_findings[k].line \in {1, 2}
        /\ sql_case.kind = "sample" =>
              /\ Len(sql_findings) = 1
              /\ sql_findings[1].line = 4
              /\ sql_findings[1].severity = "CRITICAL"

\* a comment line in which two matchers match, followed by a line in which
\* three matchers match: three findings, all about the second line
C24_Witness ==
    /\ sql_pc = "returned"
    /\ sql_case.kind = "pair"
    /\ sql_case.first.comment
    /\ Cardinality(sql_case.first.matchers) = 2
    /\ ~sql_case.second.comment
    /\ Cardinality(sql_case.second.matchers) = 3
    /\ Len(sql_findings) = 3
    /\ \A k \in 1..3 : sql_findings[k].line = 2

\* ---- C25 ----
\* the sensitive-operation keywords of SENSITIVE_OPS, in lower case
SensitiveKeywords ==
    {<<"d", "e", "l", "e", "t", "e">>, <<"r", "e", "m", "o", "v", "e">>,
     <<"d", "r", "o", "p">>, <<"u", "p", "d", "a", "t", "e">>,
     <<"c", "r", "e", "a", "t", "e">>, <<"i", "n", "s", "e", "r", "t">>,
     <<"m", "o", "d", "i", "f", "y">>, <<"a", "d", "m", "i", "n">>,
     <<"u", "s", "e", "r">>, <<"p", "a", "s", "s", "w", "o", "r", "d">>,
     <<"p", "a", "y", "m", "e", "n", "t">>,
     <<"c", "h", "e", "c", "k", "o", "u", "t">>}

\* the line holds a sensitive keyword, in any case
HoldsKeyword(line) ==
    LET lowered == [k \in 1..Len(line) |-> LowerOf(line[k])]
    IN  \E w \in SensitiveKeywords : Contains(lowered, w)

\* C25: every Missing Authentication finding is HIGH if its route line
\* holds a sensitive keyword and MEDIUM otherwise, a MEDIUM finding is
\* always about a route bound to POST, PUT, DELETE or PATCH, and the
\* explanation of a HIGH finding differs from that of a MEDIUM one.
C25_SeverityByKeywordMediumIsMutating ==
    (auth_pc = "returned" /\ auth_case.kind = "line") =>
        \A k \in 1..Len(auth_findings) :
            LET f == auth_findings[k]
            IN  /\ f.severity = IF HoldsKeyword(auth_case.route.text)
                                THEN "HIGH" ELSE "MEDIUM"
                /\ f.severity = "MEDIUM" =>
                       auth_case.route.verb \in MutatingVerbs
                /\ f.explanation = IF f.severity = "HIGH"
                                   THEN ExplainSensitive ELSE ExplainMutating
                /\ ExplainSensitive # ExplainMutating


\* ---- C26 ----
\* C26: the context window is symmetric: an auth pattern on a line at most
\* 5 lines before or at most 5 lines after the route line, the line
\* exactly 5 after it included, suppresses the finding for that route.
C26_WindowSymmetricFiveAfter ==
    (/\ auth_pc = "returned"
     /\ auth_case.kind = "window"
     /\ auth_case.other.auth
     /\ auth_case.j >= auth_case.i - 5
     /\ auth_case.j <= auth_case.i + 5) =>
        auth_findings = <<>>


\* ---- C27 ----
\* scan_files returned and loaded no file
ZeroFilesLoaded == w_scan # NoResult /\ w_scan.files = <<>>

\* what the worker holds once scan_files loaded no file: it has returned
\* without reaching the detectors or the enrichment, nothing was raised or
\* logged as failed, and the result has the six keys, three empty
\* categories, the flag and a notice
ZeroFilesWorkerResult ==
    ZeroFilesLoaded =>
        /\ w_pc = "returned"
        /\ w_exc = "none"
        /\ w_log = {}
        /\ w_findings = EmptyFindings
        /\ DOMAIN w_result = {"files", "findings", "repo_path", "total_found",
                              "was_truncated", "scan_notice"}
        /\ w_result.files = <<>>
        /\ \A c \in Categories : w_result.findings[c] = <<>>
        /\ w_result.was_truncated
        /\ w_result.scan_notice # NoticeNone

\* C27: when scan_files loads zero files, _blocking_scan returns a
\* well-formed result without running a detector task or the enrichment:
\* the three categories are empty, the flag is true and a notice is
\* present; the handler that receives it answers with a report, not with
\* an error.
C27_ZeroFilesIsWellFormedResult ==
    /\ []ZeroFilesWorkerResult
    /\ [][(ZeroFilesLoaded /\ h_pc = "awaiting" /\ h_pc' = "responded") =>
             /\ "error" \notin DOMAIN h_response'
             /\ h_response'.files_scanned = 0
             /\ h_response'.partial_scan
             /\ h_response'.scan_notice # NoticeNone
             /\ \A c \in Categories : h_response'.findings[c] = <<>>
             /\ h_response'.summary.total_findings = 0]_vars

\* a request answered with the report of a scan that loaded no file out
\* of two discovered
C27_Witness ==
    /\ ZeroFilesLoaded
    /\ w_scan.total_found = 2
    /\ h_pc = "responded"
    /\ "partial_scan" \in DOMAIN h_response
    /\ h_response.partial_scan
    /\ h_response.scan_notice = NoticeNoFiles


\* ---- C28 ----
\* C28: on a file set on which no detector raises, the graph workflow
\* returns for each of the three categories the same ordered findings as
\* _run_agents_parallel, and a _summary entry whose total_findings is the
\* sum of the three category counts.
C28_GraphAgreesWithOrchestrator ==
    (a_faulty = {} /\ a_pc = "returned" /\ g_pc = "returned") =>
        /\ \A c \in Categories : g_result[c] = a_findings[c]
        /\ DOMAIN g_result = Categories \cup {"_summary"}
        /\ g_result["_summary"].total_findings =
               Len(a_findings["secrets_detected"])
               + Len(a_findings["sql_injection"])
               + Len(a_findings["missing_auth"])

\* both returned on files where the three detectors report one, two and
\* two findings
C28_Witness ==
    /\ a_faulty = {}
    /\ a_pc = "returned"
    /\ g_pc = "returned"
    /\ Len(g_result["secrets_detected"]) = 1
    /\ Len(g_result["sql_injection"]) = 2
    /\ g_result["missing_auth"] = <<AuthFindingHigh, AuthFinding>>
    /\ g_result["_summary"].total_findings = 5


\* ---- C29 ----
\* C29: the cache never serves one operation's entry to the other: the
\* fixed_file of a fix-all response was never stored by generate-fix, and
\* the fixed_code of a generate-fix response was never stored by fix-all.
C29_CacheEntriesStayWithTheirOperation ==
    (fix_response.operation # "none" /\ fix_response.status_code = 200
     /\ fix_response.cached) =>
        fix_response.stored_by = fix_response.operation


\* ---- C30 ----
\* C30: whenever the report of an analyze request has partial_scan true,
\* its scan_notice is present; the notice is absent only when the flag is
\* false.
C30_PartialScanHasNotice ==
    (h_pc = "responded" /\ "partial_scan" \in DOMAIN h_response) =>
        (h_response.partial_scan => h_response.scan_notice # NoticeNone)

====
